---- MODULE Spec2Model ----
(***************************************************************************)
(* Model of the pysfn function-to-state-machine compiler (pysfn/steps.py). *)
(* The compiler walks the statements of a function body; every handler of  *)
(* SFNScope is one action (handlers of block statements are split at the   *)
(* points where they recurse into handle_body).  The statements themselves *)
(* are the inputs: they are drawn one at a time from small sets.           *)
(***************************************************************************)
EXTENDS Integers, Sequences, FiniteSets, TLC

VARIABLES SFN_INDEX, fts, states, stack, status, tries, nstmts, core, names, pl, exec

vars == <<SFN_INDEX, fts, states, stack, status, tries, nstmts, core, names, pl, exec>>

(***************************************************************************)
(* Bounds of the model.                                                    *)
(***************************************************************************)
MaxStmts == 3
MaxCoreStmts == 4
MaxDepth == 2
MaxHandlers == 2
MaxMachines == 2
MaxNames == 3
MaxLabelLen == 1
MaxAssigns == 2
MaxCalls == 2
MaxTests == 1
MaxPasses == 2
MaxRegisters == 2

(***************************************************************************)
(* Generic helpers: Python dicts are sequences of [k, v] entries.          *)
(***************************************************************************)
Range(s) == {s[i] : i \in 1..Len(s)}

DictKeys(d) == [i \in 1..Len(d) |-> d[i].k]

DictHas(d, key) == \E i \in 1..Len(d) : d[i].k = key

Last(s) == s[Len(s)]

Front(s) == SubSeq(s, 1, Len(s) - 1)

(***************************************************************************)
(* Values that end up in the parameters of a state.                        *)
(***************************************************************************)
NoneV == [t |-> "None"]

\* a Python str; the text is a sequence of words
Str(text) == [t |-> "str", text |-> text]

\* JsonPath.string_at(path): a CDK token, rendered under a ".$" key
StringAt(path) == [t |-> "token", path |-> path]

Digit == <<"0", "1", "2", "3", "4", "5", "6", "7", "8", "9">>

RECURSIVE Dec(_)
Dec(n) == IF n < 10 THEN <<Digit[n + 1]>> ELSE Dec(n \div 10) \o <<Digit[(n % 10) + 1]>>

(***************************************************************************)
(* FunctionToSteps.__init__ reads the process-wide SFN_INDEX, and          *)
(* FunctionToSteps.state_name: the per-machine counter and the ID format.  *)
(***************************************************************************)
FunctionToSteps(func, sfn_index) ==
    [func |-> func, output |-> func.output, skip_pass |-> func.skip_pass,
     state_number |-> 0, sfn_number |-> sfn_index]

NextSfnIndex(sfn_index) == sfn_index + 1

\* state_name without the increment of the per-machine counter
state_name_no_increment(f, name) ==
    [fts |-> f,
     id  |-> name \o <<" ", "[">> \o Dec(f.sfn_number) \o <<":">> \o Dec(f.state_number + 1)
                  \o <<"]">>]

state_name(f, name) ==
    LET n == f.state_number + 1
    IN  [fts |-> [f EXCEPT !.state_number = n],
         id  |-> name \o <<" ", "[">> \o Dec(f.sfn_number) \o <<":">> \o Dec(n) \o <<"]">>]

(***************************************************************************)
(* update_param_name: the ".$" suffix of a parameter key.                  *)
(***************************************************************************)
update_param_name(key, value) ==
    IF value.t = "str" /\ Len(value.text) > 0 /\ value.text[1] = "States"
    THEN [name |-> key, sfx |-> TRUE]
    ELSE [name |-> key, sfx |-> FALSE]

(***************************************************************************)
(* Scopes.  variables, scoped_variables and _updated_vars keep the order   *)
(* of insertion, as the dict and the lists of the code do.                 *)
(***************************************************************************)
SFNScope == [kind |-> "root", variables |-> <<>>, scoped_variables |-> <<>>,
             updated |-> <<>>, hidden |-> {}]

ChildScope(parent) == [kind |-> "child", variables |-> parent.variables,
                       scoped_variables |-> <<>>, updated |-> <<>>,
                       hidden |-> parent.hidden]

MapScope(parent) == [kind |-> "map", variables |-> parent.variables,
                     scoped_variables |-> <<>>, updated |-> <<>>,
                     hidden |-> parent.hidden]

\* SFNScope.add_var with the _added_var hook of ChildScope and MapScope
add_var(scope, key) ==
    [scope EXCEPT !.variables = IF key \in Range(@) THEN @ ELSE Append(@, key),
                  !.scoped_variables = IF scope.kind = "root" THEN @ ELSE Append(@, key),
                  !.hidden = @ \ {key}]

RECURSIVE add_vars(_, _)
add_vars(scope, keys) ==
    IF keys = <<>> THEN scope ELSE add_vars(add_var(scope, keys[1]), Tail(keys))

\* the _updated_var hook: only MapScope records it
updated_var(scope, keys) ==
    IF scope.kind = "map" THEN [scope EXCEPT !.updated = @ \o keys] ELSE scope

\* MapScope.updated_vars
updated_vars(scope) ==
    SelectSeq(scope.updated, LAMBDA v : v \notin Range(scope.scoped_variables))

RegisterPath(register_path, v) == <<"$">> \o register_path \o <<v>>

\* build_register_assignment without the loop that copies the known variables over
build_register_assignment_no_copy(scope, values, register_path) ==
    LET keys   == DictKeys(values)
        params == [i \in 1..Len(values) |->
                     [k |-> values[i].k,
                      v |-> IF values[i].v.t = "None" THEN Str(<<>>) ELSE values[i].v]]
        added  == SelectSeq(keys, LAMBDA k : k \notin Range(scope.variables))
    IN  [params |-> [i \in 1..Len(params) |-> [k |-> update_param_name(params[i].k, params[i].v),
                                               v |-> params[i].v]],
         scope  |-> add_vars(updated_var(scope, keys), added)]

build_register_assignment(scope, values, register_path) ==
    LET keys    == DictKeys(values)
        params  == [i \in 1..Len(values) |->
                      [k |-> values[i].k,
                       v |-> IF values[i].v.t = "None" THEN Str(<<>>) ELSE values[i].v]]
        missing == SelectSeq(scope.variables, LAMBDA v : ~DictHas(params, v))
        copied  == [i \in 1..Len(missing) |->
                      [k |-> missing[i], v |-> StringAt(RegisterPath(register_path, missing[i]))]]
        all     == params \o copied
        added   == SelectSeq(keys, LAMBDA k : k \notin Range(scope.variables))
    IN  [params |-> [i \in 1..Len(all) |-> [k |-> update_param_name(all[i].k, all[i].v),
                                            v |-> all[i].v]],
         scope  |-> add_vars(updated_var(scope, keys), added)]

(***************************************************************************)
(* Emitted states.  A state is stored at the index that state_name gave    *)
(* it; next, when, otherwise, iterator and the target of a catch are such  *)
(* indices, 0 when unset.  The field g records, for the properties only,   *)
(* what the scope knew when the state was built, the keys the statement    *)
(* gave the literal None (nulls) and the statement itself (stmt).          *)
(***************************************************************************)
Register == <<"$", "register">>

NoPath == <<>>

NoGhost == [vars |-> {}, bound |-> {}, reads |-> {}, hidden |-> {}, regWrite |-> FALSE,
            withs |-> 0, tryBody |-> {}, handlerOf |-> {}, loop |-> 0,
            nulls |-> {}, stmt |-> [t |-> "None"]]

BaseState == [kind |-> "Pass", label |-> "", id |-> <<>>, next |-> 0, when |-> 0,
              otherwise |-> 0, catches |-> <<>>, retries |-> <<>>, iterator |-> 0,
              input_path |-> NoPath, result_path |-> NoPath, items_path |-> NoPath,
              has_params |-> FALSE,
              parameters |-> <<>>, max_concurrency |-> 0, invocation_type |-> "",
              integration_pattern |-> "", heartbeat |-> [t |-> "None"],
              condition |-> [t |-> "None"], g |-> NoGhost]

NewState(fields) == fields @@ BaseState

\* states with an add_retry / add_catch method in the CDK: tasks and Map
HasHook(s) == s.kind \in {"Task", "Map"}

(***************************************************************************)
(* Successor setters: the bound methods and closures the handlers pass on  *)
(* (state.next, choice.otherwise, if_next, inner_next), None, and lists.   *)
(***************************************************************************)
None == [t |-> "None"]

Cb(op, s) == [t |-> "cb", op |-> op, s |-> s]

List(items) == [t |-> "list", items |-> items]

\* attach_catch.inner_next: closes over the step and the handler
inner_next(s, handler) == [t |-> "cb", op |-> "catch", s |-> s, errors |-> handler.errors,
                           result_path |-> handler.result_path,
                           try |-> handler.try, h |-> handler.h]

Call(sts, cb, c) ==
    CASE cb.op = "next"      -> [sts EXCEPT ![cb.s].next = c]
      [] cb.op = "otherwise" -> [sts EXCEPT ![cb.s].otherwise = c]
      [] cb.op = "when"      -> [sts EXCEPT ![cb.s].when = c]
      [] cb.op = "catch"     -> [sts EXCEPT ![cb.s].catches =
                                    Append(@, [target |-> c, errors |-> cb.errors,
                                               result_path |-> cb.result_path,
                                               try |-> cb.try, h |-> cb.h])]

RECURSIVE flatten(_)
flatten(items) ==
    IF items = <<>> THEN <<>>
    ELSE (IF items[1].t = "list" THEN flatten(items[1].items) ELSE <<items[1]>>)
         \o flatten(Tail(items))

\* i(chain) for each i in turn; calling None raises a TypeError
RECURSIVE CallAll(_, _, _)
CallAll(sts, cbs, c) ==
    IF cbs = <<>> THEN [states |-> sts, err |-> FALSE]
    ELSE IF cbs[1].t = "None" THEN [states |-> sts, err |-> TRUE]
    ELSE CallAll(Call(sts, cbs[1], c), Tail(cbs), c)

advance(sts, next_, chain, new_next) ==
    IF chain # <<>>
    THEN LET r == CallAll(sts, IF next_.t = "list" THEN flatten(next_.items) ELSE <<next_>>,
                          chain[1])
         IN  [states |-> r.states, next |-> new_next, err |-> r.err]
    ELSE [states |-> sts, next |-> next_, err |-> FALSE]

\* Python truth value of a next_ value
Truthy(next_) == next_.t = "cb" \/ (next_.t = "list" /\ next_.items # <<>>)

(***************************************************************************)
(* Frames: one per running handle_body, with the locals of the handler     *)
(* that called it in loc.  n counts the statements of the body, ret tells  *)
(* that the last one was a return, and pend holds the try statements whose *)
(* following statement has not been compiled yet (for the properties only).*)
(***************************************************************************)
Frame(kind, scope, loc) == [kind |-> kind, scope |-> scope, chain |-> <<>>, next_ |-> None,
                            n |-> 0, ret |-> FALSE, pend |-> {}, loc |-> loc]

Top == stack[Len(stack)]

\* the with blocks and try bodies that enclose the statement being compiled
Withs(stk) == Cardinality({i \in 1..Len(stk) : stk[i].kind = "with"})

TryBodies(stk) == {stk[i].loc.try : i \in {j \in 1..Len(stk) : stk[j].kind = "try"}}

HandlerOf(stk) == {stk[i].loc.try : i \in {j \in 1..Len(stk) : stk[j].kind = "handler"}}

Ghost(stk, scope, bound, reads, regWrite) ==
    [vars |-> Range(scope.variables), bound |-> bound, reads |-> reads,
     hidden |-> scope.hidden, regWrite |-> regWrite, withs |-> Withs(stk),
     tryBody |-> TryBodies(stk), handlerOf |-> HandlerOf(stk),
     loop |-> Cardinality({i \in 1..Len(stk) : stk[i].kind = "for"}),
     nulls |-> {}, stmt |-> [t |-> "None"]]

\* the statement that follows the try statements of ids is the one starting at state c
Follow(tr, ids, c) == [i \in 1..Len(tr) |-> IF i \in ids THEN [tr[i] EXCEPT !.follow = c] ELSE tr[i]]

\* one turn of the loop of handle_body, for a statement that compiled to (c, n)
handle_body(fr, sts, tr, c, n, pend) ==
    LET r == IF Truthy(fr.next_) THEN advance(sts, fr.next_, c, n)
             ELSE [states |-> sts, next |-> n, err |-> FALSE]
    IN  [frame  |-> [fr EXCEPT !.chain = @ \o c, !.next_ = r.next, !.n = @ + 1,
                               !.pend = IF c # <<>> THEN pend ELSE @ \cup pend],
         states |-> r.states,
         tries  |-> IF c # <<>> THEN Follow(tr, fr.pend, c[1]) ELSE tr,
         err    |-> r.err]

\* the statement compiled to (c, n) in frame fr on top of the frames below; when
\* advance calls None, the TypeError leaves a frame with the setters it was given
Emit(below, fr, f, sts, tr, c, n, pend) ==
    LET b == handle_body(fr, sts, tr, c, n, pend)
    IN  /\ stack' = IF b.err
                    THEN Append(below, b.frame)
                           \o <<Frame("raise", fr.scope, [t |-> "TypeError", next_ |-> fr.next_])>>
                    ELSE Append(below, b.frame)
        /\ fts' = f
        /\ states' = b.states
        /\ tries' = b.tries
        /\ status' = IF b.err THEN "error" ELSE status
        /\ UNCHANGED <<SFN_INDEX, names, pl, exec>>

\* an exception leaves the compilation
Raise ==
    /\ status' = "error"
    /\ UNCHANGED <<SFN_INDEX, fts, states, stack, tries, names, pl, exec>>

(***************************************************************************)
(* Expressions of the source language.                                     *)
(***************************************************************************)
Name(id) == [t |-> "Name", id |-> id]

Constant(value) == [t |-> "Constant", value |-> value]

\* the variables an expression reads
Reads(e) == IF e.t = "Name" THEN {e.id} ELSE {}

generate_value_repr(arg_value) ==
    IF arg_value.t = "Name" THEN StringAt(<<"$", arg_value.id>>) ELSE arg_value.value

(***************************************************************************)
(* Entry steps.                                                            *)
(***************************************************************************)
RECURSIVE build_optional_parameter_steps(_, _, _, _, _, _)
build_optional_parameter_steps(f, scope, sts, optional_parameters, chain, next_) ==
    IF optional_parameters = <<>>
    THEN [fts |-> f, scope |-> scope, states |-> sts, chain |-> chain, next |-> next_]
    ELSE LET name   == optional_parameters[1].k
             value  == optional_parameters[1].v
             cn     == state_name(f, <<"Has ", name>>)
             an     == state_name(cn.fts, <<"Assign ", name, " default">>)
             ci     == cn.fts.state_number
             ai     == an.fts.state_number
             ra     == build_register_assignment(scope, <<[k |-> name, v |-> value]>>, <<>>)
             choice == NewState([kind |-> "Choice", label |-> "Has", id |-> cn.id, when |-> ai,
                                 condition |-> [t |-> "cond", op |-> "is_not_present",
                                                variable |-> Register \o <<name>>,
                                                value |-> NoneV]])
             assign == NewState([kind |-> "Pass", label |-> "Assign default", id |-> an.id,
                                 input_path |-> Register, result_path |-> Register,
                                 has_params |-> TRUE, parameters |-> ra.params,
                                 g |-> [Ghost(<<>>, scope, {name}, {}, TRUE) EXCEPT
                                           !.nulls = IF value.t = "None" THEN {name} ELSE {}]])
             sts2   == sts \o <<choice, assign>>
             nn     == List(<<Cb("otherwise", ci), Cb("next", ai)>>)
             adv    == IF Truthy(next_) THEN advance(sts2, next_, <<ci>>, nn)
                       ELSE [states |-> sts2, next |-> nn, err |-> FALSE]
         IN  build_optional_parameter_steps(an.fts, ra.scope, adv.states,
                                            Tail(optional_parameters),
                                            chain \o <<ci, ai>>, adv.next)

generate_entry_steps(f, scope, required_parameters, optional_parameters) ==
    LET sc    == [scope EXCEPT !.variables = @ \o required_parameters]
        sn    == state_name(f, <<"Register Input">>)
        start == NewState([kind |-> "Pass", label |-> "Register Input", id |-> sn.id,
                           result_path |-> Register, g |-> Ghost(<<>>, sc, {}, {}, FALSE)])
        o     == build_optional_parameter_steps(sn.fts, sc, <<start>>, optional_parameters,
                                                <<>>, None)
        adv   == advance(o.states, Cb("next", 1), o.chain, o.next)
    IN  [fts |-> o.fts, scope |-> o.scope, states |-> adv.states, start |-> 1,
         next |-> adv.next]

\* the functions handed to the compiler: the required and the optional parameters
\* (with their defaults), the declared output schema and the skip_pass option
Functions ==
    {[required |-> <<"a">>, optional |-> <<[k |-> "b", v |-> NoneV]>>,
      output |-> <<"o0", "o1">>, skip_pass |-> TRUE],
     [required |-> <<"a">>, optional |-> <<>>, output |-> <<"o0">>, skip_pass |-> TRUE],
     [required |-> <<"a">>, optional |-> <<>>, output |-> <<"o0", "o1">>, skip_pass |-> FALSE]}

\* FunctionToSteps.build_sfn_definition, up to the call of handle_body
BuildEntry ==
    /\ status = "new"
    /\ LET e == generate_entry_steps(fts, SFNScope, fts.func.required, fts.func.optional)
       IN  /\ fts' = e.fts
           /\ states' = e.states
           /\ stack' = <<Frame("root", e.scope, [start |-> e.start, next_ |-> e.next])>>
    /\ status' = "body"
    /\ UNCHANGED <<SFN_INDEX, tries, nstmts, core, names, pl, exec>>

\* FunctionToSteps.build_sfn_definition, after handle_body returned
BuildFinish ==
    /\ status = "body"
    /\ Len(stack) = 1
    /\ Top.n > 0
    /\ LET adv == advance(states, Top.loc.next_, Top.chain, Top.next_)
       IN  /\ states' = adv.states
           /\ status' = IF adv.err THEN "error" ELSE "done"
    /\ UNCHANGED <<SFN_INDEX, fts, stack, tries, nstmts, core, names, pl, exec>>

(***************************************************************************)
(* Statements without a body.                                              *)
(***************************************************************************)
\* A function has up to MaxStmts statements, and up to MaxCoreStmts when all of
\* them are of the core forms (pass, `c = step(a)`, if, with, try / except Exception).
\* No statement follows a return in the block of the return.
Admit(is_core) ==
    /\ status = "body"
    /\ ~Top.ret
    /\ nstmts < MaxStmts \/ (core /\ is_core /\ nstmts < MaxCoreStmts)
    /\ nstmts' = nstmts + 1
    /\ core' = (core /\ is_core)

Same == UNCHANGED <<nstmts, core>>

\* a Python int
IntV(v) == [t |-> "int", v |-> v]

\* an assignment statement: annotated or not, the target `var_name` or
\* `var_name[sub]` (sub is NoneV without a subscript), and the value
Assign(ann, var_name, sub, value) ==
    [t |-> "Assign", ann |-> ann, var_name |-> var_name, sub |-> sub, value |-> value]

\* the assignments `c = None` and `a = c`
AssignStmts == {Assign(FALSE, "c", NoneV, Constant(NoneV)),
                Assign(FALSE, "a", NoneV, Name("c"))}

\* Python truth value of a constant
TruthyValue(v) == (v.t = "str" /\ v.text # <<>>) \/ (v.t = "int" /\ v.v # 0)

\* the words of a constant inside an f-string
Words(v) ==
    IF v.t = "str" THEN v.text
    ELSE IF v.t = "int" THEN Dec(v.v)
    ELSE IF v.t = "float" THEN Dec(v.v \div 10) \o <<".">> \o Dec(v.v % 10)
    ELSE IF v.t = "bool" THEN (IF v.v THEN <<"True">> ELSE <<"False">>)
    ELSE <<"None">>

\* the literal None on the right-hand side
IsNone(value_expr) == value_expr.t = "Constant" /\ value_expr.value.t = "None"

\* the intrinsic that merges the scratch slot into the variable
JsonMerge(var_name) == Str(<<"States", ".JsonMerge($.", var_name, ", $.itm, false)">>)

handle_assign_value(stmt) ==
    LET var_name   == stmt.var_name
        sub_target == stmt.sub
        value      == generate_value_repr(stmt.value)
    IN  IF TruthyValue(sub_target)
        THEN LET pn   == state_name(fts, <<"Prep assign ", var_name, ".">> \o Words(sub_target))
                 i    == pn.fts.state_number
                 sn   == state_name(pn.fts, <<"Assign ", var_name, ".">> \o Words(sub_target))
                 j    == sn.fts.state_number
                 ra   == build_register_assignment(
                             Top.scope,
                             <<[k |-> var_name, v |-> JsonMerge(var_name)]>>,
                             <<>>)
                 prep == NewState([kind |-> "Pass", label |-> "Prep assign", id |-> pn.id,
                                   input_path |-> Register,
                                   result_path |-> Register \o <<"itm">>,
                                   has_params |-> TRUE, next |-> j,
                                   parameters |-> <<[k |-> [name |-> sub_target, sfx |-> FALSE],
                                                    v |-> value]>>,
                                   g |-> [Ghost(stack, Top.scope, {}, Reads(stmt.value), FALSE)
                                             EXCEPT !.stmt = stmt,
                                                    !.nulls = IF IsNone(stmt.value)
                                                              THEN {sub_target} ELSE {}]])
                 assign == NewState([kind |-> "Pass", label |-> "Assign", id |-> sn.id,
                                     input_path |-> Register, result_path |-> Register,
                                     has_params |-> TRUE, parameters |-> ra.params,
                                     g |-> [Ghost(stack, Top.scope, {var_name}, {}, TRUE)
                                               EXCEPT !.stmt = stmt]])
             IN  Emit(Front(stack), [Top EXCEPT !.scope = ra.scope], sn.fts,
                      states \o <<prep, assign>>, tries, <<i, j>>, Cb("next", j), {})
        ELSE LET sn     == state_name(fts, <<"Assign ", var_name>>)
                 i      == sn.fts.state_number
                 ra     == build_register_assignment(Top.scope,
                                                     <<[k |-> var_name, v |-> value]>>, <<>>)
                 assign == NewState([kind |-> "Pass", label |-> "Assign", id |-> sn.id,
                                     input_path |-> Register, result_path |-> Register,
                                     has_params |-> TRUE, parameters |-> ra.params,
                                     g |-> [Ghost(stack, Top.scope, {var_name},
                                                  Reads(stmt.value), TRUE)
                                               EXCEPT !.stmt = stmt,
                                                      !.nulls = IF IsNone(stmt.value)
                                                                THEN {var_name} ELSE {}]])
             IN  Emit(Front(stack), [Top EXCEPT !.scope = ra.scope], sn.fts,
                      Append(states, assign), tries, <<i>>, Cb("next", i), {})

StmtAssign ==
    /\ Admit(FALSE)
    /\ \E stmt \in AssignStmts : handle_assign_value(stmt)

\* handle_op for `pass`
StmtPass ==
    /\ Admit(TRUE)
    /\ IF fts.skip_pass
       THEN Emit(Front(stack), Top, fts, states, tries, <<>>, None, {})
       ELSE LET sn == state_name(fts, <<"Pass">>)
                i  == sn.fts.state_number
                p  == NewState([kind |-> "Pass", label |-> "Pass", id |-> sn.id,
                                g |-> Ghost(stack, Top.scope, {}, {}, FALSE)])
            IN  Emit(Front(stack), Top, sn.fts, Append(states, p), tries,
                     <<i>>, Cb("next", i), {})

\* the compute units of the lexical environment: input and output of func.definition
Definition == [step |-> [input |-> <<"p0">>, output |-> <<"r0">>]]

\* the registered service operations and their return fields
service_operations ==
    [s3_write_json       |-> [step_name |-> "S3 Write JSON", return_vars |-> <<"ETag">>],
     s3_read_json        |-> [step_name |-> "S3 Read JSON",
                              return_vars |-> <<"Body", "LastModified", "ETag">>],
     sqs_send_message    |-> [step_name |-> "Send SQS Message", return_vars |-> <<"MessageId">>],
     sqs_receive_message |-> [step_name |-> "Receive SQS Message",
                              return_vars |-> <<"Messages">>],
     sqs_delete_message  |-> [step_name |-> "Delete SQS Message", return_vars |-> <<>>]]

\* fts.local_values.get(id): the compute unit `step` and the service operations
\* are in the lexical environment, the wrappers event and await_token are not
local_values_get(id) ==
    IF id \in DOMAIN Definition THEN [t |-> "func", kind |-> "lambda"]
    ELSE IF id \in DOMAIN service_operations THEN [t |-> "func", kind |-> "service"]
    ELSE NoneV

\* a call expression: of a name, or of an attribute such as Duration.seconds
CallE(func, args) == [t |-> "Call", name |-> TRUE, func |-> func, args |-> args]

AttrCall(attr, args) == [t |-> "Call", name |-> FALSE, func |-> attr, args |-> args]

\* a list display of constants
ListE(elts) == [t |-> "List", elts |-> elts]

\* a call statement, with the names it is assigned to (none for a bare call)
CallStmt(call, targets) == [t |-> "CallStmt", call |-> call, targets |-> targets]

\* the statements `step(a)` and `c = step(a)`
CallStmts == {CallStmt(CallE("step", <<Name("a")>>), <<>>),
              CallStmt(CallE("step", <<Name("a")>>), <<"c">>)}

\* build_parameters: the positional arguments under the names of the definition
build_parameters(call) ==
    LET input == Definition[call.func].input
        m     == IF Len(call.args) < Len(input) THEN Len(call.args) ELSE Len(input)
    IN  [i \in 1..m |-> [k |-> input[i], v |-> generate_value_repr(call.args[i])]]

\* a Duration, in seconds
Duration(attr_name, value) ==
    [t |-> "duration", seconds |-> IF attr_name = "minutes" THEN 60 * value ELSE value]

\* the duration argument of await_token
await_duration(call) ==
    IF Len(call.args) = 3
    THEN LET duration_arg == call.args[3]
         IN  IF /\ duration_arg.t = "Call"
                /\ ~duration_arg.name
                /\ Len(duration_arg.args) > 0
                /\ duration_arg.args[1].t = "Constant"
             THEN Duration(duration_arg.func, duration_arg.args[1].value.v)
             ELSE NoneV
    ELSE NoneV

\* a variant of await_return_vars that keeps the fields the callee declares
await_return_vars_declared(return_arg, return_vars) == return_vars

\* the return fields of a call wrapped in await_token
await_return_vars(return_arg, return_vars) ==
    IF return_arg.t = "List" /\ \A i \in 1..Len(return_arg.elts) : return_arg.elts[i].t = "Constant"
    THEN [i \in 1..Len(return_arg.elts) |-> return_arg.elts[i].value.text[1]]
    ELSE return_vars

\* _build_func_call: the state of the call, the fields it returns, its name and
\* the prefix of the fields in the result
RECURSIVE _build_func_call(_, _, _, _, _)
_build_func_call(f, call, invoke_event_, await_token_, await_duration_) ==
    LET fail == [err |-> TRUE, fts |-> f, invoke |-> NoneV, return_vars |-> <<>>,
                 name |-> call.func, result_prefix |-> <<>>]
        func == local_values_get(call.func)
    IN  IF ~call.name THEN fail
        ELSE IF func.t = "None" /\ call.func \notin {"sleep", "event", "await_token"}
        THEN fail
        ELSE IF call.func = "event" /\ Len(call.args) > 0 /\ call.args[1].t = "Call"
        THEN _build_func_call(f, call.args[1], TRUE, FALSE, NoneV)
        ELSE IF call.func = "await_token" /\ Len(call.args) >= 2 /\ call.args[1].t = "Call"
        THEN LET r == _build_func_call(f, call.args[1], TRUE, TRUE, await_duration(call))
             IN  IF r.err THEN r
                 ELSE [r EXCEPT !.return_vars = await_return_vars(call.args[2], @),
                                !.result_prefix = <<>>]
        ELSE IF func.t = "func" /\ func.kind = "lambda"
        THEN LET sn == state_name(f, <<"Call ", call.func>>)
             IN  [err |-> FALSE, fts |-> sn.fts,
                  invoke |-> NewState(
                      [kind |-> "Task", label |-> "Call", id |-> sn.id,
                       input_path |-> Register, result_path |-> Register \o <<"out">>,
                       has_params |-> TRUE, parameters |-> build_parameters(call),
                       invocation_type |-> IF invoke_event_ THEN "EVENT"
                                           ELSE "REQUEST_RESPONSE",
                       integration_pattern |-> IF await_token_ THEN "WAIT_FOR_TASK_TOKEN"
                                               ELSE "REQUEST_RESPONSE",
                       heartbeat |-> await_duration_]),
                  return_vars |-> Definition[call.func].output,
                  name |-> call.func, result_prefix |-> <<"Payload">>]
        ELSE fail

\* the names a call expression reads, wrapped calls included
RECURSIVE CallReads(_)
CallReads(e) ==
    IF e.t = "Call" THEN UNION {CallReads(e.args[k]) : k \in 1..Len(e.args)} ELSE Reads(e)

\* an exception raised while the statement stmt is compiled: the frame of the
\* handler stays on the stack
RaiseAt(stmt) ==
    /\ status' = "error"
    /\ stack' = Append(stack, Frame("raise", Top.scope, stmt))
    /\ UNCHANGED <<SFN_INDEX, fts, states, tries, names, pl, exec>>

\* handle_call_function for a call that is no intrinsic function
handle_call_function(stmt) ==
    LET b       == _build_func_call(fts, stmt.call, FALSE, FALSE, NoneV)
        i       == b.fts.state_number
        invoke  == [b.invoke EXCEPT !.g = [Ghost(stack, Top.scope, {}, CallReads(stmt.call),
                                                    FALSE) EXCEPT !.stmt = stmt]]
        m       == IF Len(stmt.targets) < Len(b.return_vars) THEN Len(stmt.targets)
                   ELSE Len(b.return_vars)
        result_params == [k \in 1..m |->
                            [k |-> stmt.targets[k],
                             v |-> StringAt(<<"$", "out">> \o b.result_prefix
                                                \o <<b.return_vars[k]>>)]]
        rn      == state_name(b.fts, <<"Register ", stmt.call.func>>)
        j       == rn.fts.state_number
        ra      == build_register_assignment(Top.scope, result_params, <<>>)
        register == NewState([kind |-> "Pass", label |-> "Register", id |-> rn.id,
                              input_path |-> Register, result_path |-> Register,
                              has_params |-> TRUE, parameters |-> ra.params,
                              g |-> [Ghost(stack, Top.scope, Range(stmt.targets), {}, TRUE)
                                        EXCEPT !.stmt = stmt]])
    IN  IF b.err THEN RaiseAt(stmt)
        ELSE IF stmt.targets = <<>>
        THEN Emit(Front(stack), Top, b.fts, Append(states, invoke), tries,
                  <<i>>, Cb("next", i), {})
        ELSE IF Len(result_params) < Len(stmt.targets)
        THEN RaiseAt(stmt)
        ELSE Emit(Front(stack), [Top EXCEPT !.scope = ra.scope], rn.fts,
                  states \o <<[invoke EXCEPT !.next = j], register>>, tries,
                  <<i, j>>, Cb("next", j), {})

StmtCall ==
    \E stmt \in CallStmts : Admit(stmt.targets # <<>>) /\ handle_call_function(stmt)

\* the values of the return statements; NoValue is a bare `return`
NoValue == [t |-> "NoValue"]

Tuple(elts) == [t |-> "Tuple", elts |-> elts]

ReturnValues == {NoValue, Name("a"), Tuple(<<Name("a"), Constant(NoneV)>>)}

\* range and len are compiled to intrinsic functions
_is_intrinsic_function(call) == call.t = "Call" /\ call.name /\ call.func \in {"range", "len"}

\* map_arg: the text of an argument of an intrinsic function, below var_path;
\* empty when the argument is neither a name, a constant nor name[constant]
map_arg(arg, var_path) ==
    IF arg.t = "Name" THEN <<"$">> \o var_path \o <<arg.id>>
    ELSE IF arg.t = "Constant" THEN Words(arg.value)
    ELSE IF arg.t = "Subscript" /\ arg.value.t = "Name" /\ arg.slice.t = "Constant"
    THEN <<"$">> \o var_path \o <<arg.value.id, "[">> \o Words(arg.slice.value) \o <<"]">>
    ELSE <<>>

\* _intrinsic_function: the token of the intrinsic call, or NoneV for the exception
_intrinsic_function(call, var_path) ==
    LET args == [k \in 1..Len(call.args) |-> map_arg(call.args[k], var_path)]
        start_val == IF Len(args) >= 2 THEN args[1] ELSE <<"0">>
        end_val   == IF Len(args) = 1 THEN args[1]
                     ELSE IF Len(args) >= 2 THEN args[2] ELSE <<"0">>
        step_val  == IF Len(args) = 3 THEN args[3] ELSE <<"1">>
    IN  IF ~call.name \/ \E k \in 1..Len(args) : args[k] = <<>> THEN NoneV
        ELSE IF call.func = "range"
        THEN StringAt(<<"States.ArrayRange(">> \o start_val \o <<", States.MathAdd(">>
                        \o end_val \o <<", -1), ">> \o step_val \o <<")">>)
        ELSE IF call.func = "len" /\ Len(args) = 1
        THEN StringAt(<<"States.ArrayLength(">> \o args[1] \o <<")">>)
        ELSE NoneV

\* _return_value: the value of one field of the result; NoValue for the exception
_return_value(value) ==
    IF value.t = "Name" THEN StringAt(<<"$", "register", value.id>>)
    ELSE IF value.t = "Constant" THEN value.value
    ELSE IF _is_intrinsic_function(value) /\ _intrinsic_function(value, <<>>) # NoneV
    THEN _intrinsic_function(value, <<>>)
    ELSE NoValue

ReturnPass(sn, has_params, parameters, reads, value) ==
    NewState([kind |-> "Pass", label |-> "Return", id |-> sn.id, has_params |-> has_params,
              parameters |-> parameters,
              g |-> [Ghost(stack, Top.scope, {}, reads, FALSE)
                        EXCEPT !.stmt = [t |-> "Return", value |-> value]]])

handle_return(value) ==
    LET sn == state_name(fts, <<"Return">>)
        i  == sn.fts.state_number
        stmt == [t |-> "Return", value |-> value]
        ret(has_params, parameters, reads) ==
            IF \E k \in 1..Len(parameters) : parameters[k].v = NoValue THEN RaiseAt(stmt)
            ELSE Emit(Front(stack), [Top EXCEPT !.ret = TRUE], sn.fts,
                      Append(states, ReturnPass(sn, has_params, parameters, reads, value)),
                      tries, <<i>>, Cb("next", i), {})
    IN  CASE value.t = "Tuple" ->
               IF Len(fts.output) # Len(value.elts) THEN RaiseAt(stmt)
               ELSE ret(TRUE,
                        [k \in 1..Len(value.elts) |->
                            [k |-> fts.output[k], v |-> _return_value(value.elts[k])]],
                        UNION {CallReads(value.elts[k]) : k \in 1..Len(value.elts)})
          [] value.t \in {"Name", "Constant"} ->
               IF Len(fts.output) # 1 THEN RaiseAt(stmt)
               ELSE ret(TRUE, <<[k |-> fts.output[1], v |-> _return_value(value)]>>,
                        Reads(value))
          [] value.t = "NoValue" -> ret(FALSE, <<>>, {})
          [] OTHER -> RaiseAt(stmt)

StmtReturn ==
    /\ Admit(FALSE)
    /\ \E value \in ReturnValues : handle_return(value)

(***************************************************************************)
(* if / else.                                                              *)
(***************************************************************************)
CanOpen == Len(stack) <= MaxDepth

\* a child scope that works on the variables of the parent instead of a copy
ScopeAfter_no_copy(parent, child) == [parent EXCEPT !.variables = child.variables]

\* the parent scope once a child scope built from it has been used: the child
\* worked on a copy of the variables, the parent's are as they were
ScopeAfter(parent, child) == parent

\* what the arms of a statement added for themselves: the names that not
\* every arm added
ArmOnly(parent, arms) ==
    LET added(i) == Range(arms[i].scoped_variables) \ Range(parent.variables)
    IN  UNION {added(i) : i \in 1..Len(arms)}
          \ {v \in UNION {added(i) : i \in 1..Len(arms)} :
               \A i \in 1..Len(arms) : v \in added(i)}

Hide(scope, hidden) == [scope EXCEPT !.hidden = @ \cup hidden]

\* a Python float, in tenths, and a Python bool
FloatV(tenths) == [t |-> "float", v |-> tenths]

BoolV(b) == [t |-> "bool", v |-> b]

\* type(value) is cls / isinstance(value, cls): bool is a subclass of int
IsInstance(value, cls) == value.t = cls \/ (cls = "int" /\ value.t = "bool")

Subscript(value, slice) == [t |-> "Subscript", value |-> value, slice |-> slice]

Compare(left, ops, comparators) ==
    [t |-> "Compare", left |-> left, ops |-> ops, comparators |-> comparators]

\* the types the source program declares for its names (annotated parameters
\* and annotated assignments); `a` carries no annotation
declared_type == [a |-> "Any", flag |-> "bool", s |-> "str", n |-> "int", x |-> "float"]

\* sfn.Condition.<op>(variable, value); and_, or_ and not_ take conditions
Condition(op, variable, value) == [t |-> "cond", op |-> op, variable |-> variable,
                                   value |-> value]

comparator_map ==
    (<<"Eq", "str">> :> [comp_op |-> "string_equals", label |-> "=="])
      @@ (<<"Eq", "int">> :> [comp_op |-> "number_equals", label |-> "=="])
      @@ (<<"Gt", "int">> :> [comp_op |-> "number_greater_than", label |-> ">"])
      @@ (<<"Gt", "float">> :> [comp_op |-> "number_greater_than", label |-> ">"])
      @@ (<<"Lt", "int">> :> [comp_op |-> "number_less_than", label |-> "<"])
      @@ (<<"Lt", "float">> :> [comp_op |-> "number_less_than", label |-> "<"])

\* get_var_name: `name` or `name.key` as path segments, empty for None
get_var_name(value) ==
    IF value.t = "Name" THEN <<value.id>>
    ELSE IF value.t = "Subscript" /\ value.value.t = "Name" /\ value.slice.t = "Constant"
    THEN <<value.value.id>> \o Words(value.slice.value)
    ELSE <<>>

\* the truthiness test of a register variable
if_value(name, var_type) ==
    LET param   == Register \o name
        present == Condition("is_present", param, NoneV)
        notnull == Condition("is_not_null", param, NoneV)
        isTrue  == Condition("boolean_equals", param, BoolV(TRUE))
        nonEmpty == Condition("not", NoPath, <<Condition("string_equals", param, Str(<<>>))>>)
        nonZero == Condition("not", NoPath, <<Condition("number_equals", param, IntV(0))>>)
    IN  IF IsInstance(var_type, "bool") THEN isTrue
        ELSE IF IsInstance(var_type, "str")
        THEN Condition("and", NoPath, <<present, notnull, nonEmpty>>)
        ELSE IF IsInstance(var_type, "int") \/ IsInstance(var_type, "float")
        THEN Condition("and", NoPath, <<present, notnull, nonZero>>)
        ELSE Condition("and", NoPath,
               <<present, notnull,
                 Condition("or", NoPath,
                   <<Condition("and", NoPath, <<Condition("is_boolean", param, NoneV), isTrue>>),
                     Condition("and", NoPath, <<Condition("is_string", param, NoneV), nonEmpty>>),
                     Condition("and", NoPath, <<Condition("is_numeric", param, NoneV), nonZero>>),
                     Condition("is_present", param \o <<"[0]">>, NoneV)>>)>>)

\* build_condition: the condition and the label of a test, or the exception
build_condition(test) ==
    LET fail == [err |-> TRUE, condition |-> NoneV, name |-> <<>>]
        ok(condition, name) == [err |-> FALSE, condition |-> condition, name |-> name]
    IN  IF test.t = "Name"
        THEN ok(if_value(<<test.id>>, NoneV), <<"If ", test.id>>)
        ELSE IF test.t = "Subscript" /\ test.value.t = "Name" /\ test.slice.t = "Constant"
        THEN LET var_name == <<test.value.id>> \o Words(test.slice.value)
             IN  ok(if_value(var_name, NoneV), <<"If ">> \o var_name)
        ELSE IF test.t = "Compare"
        THEN LET var_name == get_var_name(test.left)
             IN  IF var_name # <<>> /\ Len(test.ops) = 1 /\ Len(test.comparators) = 1
                    /\ test.comparators[1].t = "Constant"
                    /\ <<test.ops[1], test.comparators[1].value.t>> \in DOMAIN comparator_map
                 THEN LET comparator == test.comparators[1]
                          e == comparator_map[<<test.ops[1], comparator.value.t>>]
                      IN  ok(Condition(e.comp_op, Register \o var_name, comparator.value),
                             <<"If ">> \o var_name \o <<e.label, "'">>
                                 \o Words(comparator.value) \o <<"'">>)
                 ELSE fail
        ELSE IF test.t = "Call" /\ ~test.name
        THEN LET var_name == get_var_name(test.value)
                 starts_with ==
                     IF Len(test.args) = 1 /\ test.args[1].t = "Constant"
                     THEN Words(test.args[1].value) \o <<"*">> ELSE <<>>
             IN  IF test.func = "startswith" /\ var_name # <<>> /\ starts_with # <<>>
                 THEN LET param == Register \o var_name
                      IN  ok(Condition("and", NoPath,
                                <<Condition("is_present", param, NoneV),
                                  Condition("is_string", param, NoneV),
                                  Condition("string_matches", param, Str(starts_with))>>),
                             <<"If ">> \o var_name \o <<" starts with ">> \o starts_with)
                 ELSE fail
        ELSE fail

\* the names a test reads
TestReads(test) ==
    IF test.t \in {"Name", "Subscript"} THEN {get_var_name(test)[1]}
    ELSE IF test.t = "Compare" /\ get_var_name(test.left) # <<>>
    THEN {get_var_name(test.left)[1]}
    ELSE IF test.t = "Call" /\ get_var_name(test.value) # <<>>
    THEN {get_var_name(test.value)[1]}
    ELSE {}

\* handle_if up to the first handle_body
handle_if(test) ==
    LET stmt   == [t |-> "If", test |-> test]
        bc     == build_condition(test)
        sn     == state_name(fts, bc.name)
        choice == NewState([kind |-> "Choice", label |-> "If", id |-> sn.id,
                            condition |-> bc.condition,
                            g |-> [Ghost(stack, Top.scope, {}, TestReads(test), FALSE)
                                      EXCEPT !.stmt = stmt]])
    IN  IF bc.err THEN RaiseAt(stmt)
        ELSE /\ fts' = sn.fts
             /\ states' = Append(states, choice)
             /\ stack' = Append(stack, Frame("if", ChildScope(Top.scope),
                                             [choice |-> sn.fts.state_number]))
             /\ UNCHANGED <<SFN_INDEX, status, tries, names, pl, exec>>

\* an if statement whose test is the bare name of the parameter
BeginIf ==
    /\ CanOpen
    /\ Admit(TRUE)
    /\ handle_if(Name("a"))

\* handle_if between the two handle_body calls
BeginElse ==
    /\ status = "body"
    /\ Top.kind = "if"
    /\ Top.n > 0
    /\ LET parent == stack[Len(stack) - 1]
       IN  stack' = Append(Front(stack),
                           Frame("else", ChildScope(parent.scope),
                                 [choice |-> Top.loc.choice, if_c |-> Top.chain,
                                  if_n |-> Top.next_, if_pend |-> Top.pend,
                                  if_scope |-> Top.scope]))
    /\ UNCHANGED <<SFN_INDEX, fts, states, status, tries, nstmts, core, names, pl, exec>>

\* handle_if after the second handle_body
EndIf ==
    /\ status = "body"
    /\ Top.kind = "else"
    /\ LET parent == stack[Len(stack) - 1]
           choice == Top.loc.choice
           a1     == advance(states, Cb("when", choice), Top.loc.if_c, Top.loc.if_n)
           a2     == advance(a1.states, Cb("otherwise", choice), Top.chain, Top.next_)
           chain  == <<choice>> \o Top.loc.if_c \o Top.chain
           hidden == ArmOnly(parent.scope, <<Top.loc.if_scope, Top.scope>>)
           scope  == ScopeAfter(ScopeAfter(parent.scope, Top.loc.if_scope), Top.scope)
       IN  IF a1.err \/ a2.err THEN Raise /\ Same
           ELSE /\ Emit(SubSeq(stack, 1, Len(stack) - 2),
                        [parent EXCEPT !.scope = Hide(scope, hidden)],
                        fts, a2.states, tries, chain, List(<<a1.next, a2.next>>),
                        Top.loc.if_pend \cup Top.pend)
                /\ Same

(***************************************************************************)
(* with Retry(...).                                                        *)
(***************************************************************************)
\* the Retry(...) of the with statement, as build_with parses it
RetryValues == {[errors |-> <<"States.TaskFailed">>, interval_seconds |-> 10,
                 max_attempts |-> 40, backoff_rate |-> 12]}

\* handle_with up to handle_body: the body is compiled in the scope of the with
BeginWith ==
    /\ CanOpen
    /\ Admit(TRUE)
    /\ \E w_val \in RetryValues :
         stack' = Append(stack, Frame("with", Top.scope, [w_val |-> w_val]))
    /\ UNCHANGED <<SFN_INDEX, fts, states, status, tries, names, pl, exec>>

add_retry(sts, chain, w_val) ==
    [i \in 1..Len(sts) |->
        IF i \in Range(chain) /\ HasHook(sts[i])
        THEN [sts[i] EXCEPT !.retries = Append(@, w_val)]
        ELSE sts[i]]

\* handle_with after handle_body
EndWith ==
    /\ status = "body"
    /\ Top.kind = "with"
    /\ Top.n > 0
    /\ LET parent == stack[Len(stack) - 1]
       IN  Emit(SubSeq(stack, 1, Len(stack) - 2), [parent EXCEPT !.scope = Top.scope],
                fts, add_retry(states, Top.chain, Top.loc.w_val), tries,
                Top.chain, Top.next_, Top.pend)
    /\ Same

(***************************************************************************)
(* try / except.                                                           *)
(***************************************************************************)
\* the except arms: the exception type and the name it is bound to ("" for none)
HandlerStmts == {[type |-> "Exception", name |-> ""], [type |-> "Exception", name |-> "e"],
                 [type |-> "ValueError", name |-> ""]}

NoTry == [body |-> {}, normal |-> <<>>, handlers |-> <<>>, follow |-> 0, done |-> FALSE]

\* handle_try up to the handle_body of the try body
BeginTry ==
    /\ CanOpen
    /\ Admit(TRUE)
    /\ tries' = Append(tries, NoTry)
    /\ stack' = Append(stack, Frame("try", ChildScope(Top.scope), [try |-> Len(tries) + 1]))
    /\ UNCHANGED <<SFN_INDEX, fts, states, status, names, pl, exec>>

\* the head of the loop over stmt.handlers, up to the handle_body of the handler
HandlerFrame(parent, loc, handler) ==
    LET child_scope == ChildScope(parent.scope)
    IN  Frame("handler",
              IF handler.name # "" THEN add_var(child_scope, handler.name) ELSE child_scope,
              [loc EXCEPT !.handler = handler,
                          !.result_path = IF handler.name # ""
                                          THEN [t |-> "path", path |-> Register \o <<handler.name>>]
                                          ELSE NoneV])

\* the rest of the loop over stmt.handlers, after the handle_body of the handler;
\* build_exception_handler raises for a type other than Exception
HandlerDone(fr) ==
    LET loc == fr.loc
    IN  [loc EXCEPT !.chain = IF fr.chain # <<>> THEN @ \o fr.chain ELSE @,
                    !.nexts = IF fr.chain # <<>> THEN Append(@, fr.next_) ELSE @,
                    !.handlers = Append(@, [errors |-> <<"States.ALL">>, body |-> fr.chain,
                                            result_path |-> loc.result_path,
                                            try |-> loc.try, h |-> Len(loc.handlers) + 1]),
                    !.exits = Append(@, IF fr.chain # <<>> THEN fr.next_ ELSE None),
                    !.scopes = Append(@, fr.scope),
                    !.pend = @ \cup fr.pend]

BeginHandler ==
    /\ status = "body"
    /\ Top.kind = "try"
    /\ Top.n > 0
    /\ \E handler \in HandlerStmts :
         /\ stack' = Append(Front(stack),
                            HandlerFrame(stack[Len(stack) - 1],
                                         [try |-> Top.loc.try, chain |-> Top.chain,
                                          body |-> Top.chain, n |-> Top.next_,
                                          nexts |-> <<Top.next_>>, handlers |-> <<>>,
                                          exits |-> <<>>, scopes |-> <<Top.scope>>,
                                          pend |-> Top.pend, handler |-> NoneV,
                                          result_path |-> NoneV],
                                         handler))
         /\ core' = (core /\ handler.type = "Exception")
    /\ UNCHANGED <<SFN_INDEX, fts, states, status, tries, nstmts, names, pl, exec>>

NextHandler ==
    /\ status = "body"
    /\ Top.kind = "handler"
    /\ Top.n > 0
    /\ Len(Top.loc.handlers) + 1 < MaxHandlers
    /\ IF Top.loc.handler.type # "Exception" THEN Raise /\ Same
       ELSE /\ \E handler \in HandlerStmts :
                 /\ stack' = Append(Front(stack),
                                    HandlerFrame(stack[Len(stack) - 1], HandlerDone(Top),
                                                 handler))
                 /\ core' = (core /\ handler.type = "Exception")
            /\ UNCHANGED <<SFN_INDEX, fts, states, status, tries, nstmts, names, pl, exec>>

\* attach_catch that returns no setter for a handler without states
RECURSIVE attach_catch_no_setter(_, _, _, _, _)
attach_catch_no_setter(sts, nexts, chain, handlers, h) ==
    IF chain = <<>> THEN [states |-> sts, nexts |-> nexts]
    ELSE IF h > Len(handlers) \/ ~HasHook(sts[chain[1]])
    THEN attach_catch_no_setter(sts, nexts, Tail(chain), handlers, 1)
    ELSE IF handlers[h].body # <<>>
    THEN attach_catch_no_setter(advance(sts, inner_next(chain[1], handlers[h]),
                                        handlers[h].body, None).states,
                                nexts, chain, handlers, h + 1)
    ELSE attach_catch_no_setter(sts, nexts, chain, handlers, h + 1)

\* attach_catch for every state of the chain with an add_catch and every handler
RECURSIVE attach_catch(_, _, _, _, _)
attach_catch(sts, nexts, chain, handlers, h) ==
    IF chain = <<>> THEN [states |-> sts, nexts |-> nexts]
    ELSE IF h > Len(handlers) \/ ~HasHook(sts[chain[1]])
    THEN attach_catch(sts, nexts, Tail(chain), handlers, 1)
    ELSE IF handlers[h].body # <<>>
    THEN attach_catch(advance(sts, inner_next(chain[1], handlers[h]), handlers[h].body,
                              None).states,
                      nexts, chain, handlers, h + 1)
    ELSE attach_catch(sts, Append(nexts, inner_next(chain[1], handlers[h])), chain,
                      handlers, h + 1)

\* handle_try after the loop over stmt.handlers
EndTry ==
    /\ status = "body"
    /\ Top.kind = "handler"
    /\ Top.n > 0
    /\ Same
    /\ IF Top.loc.handler.type # "Exception" THEN Raise
       ELSE LET parent == stack[Len(stack) - 1]
                loc    == HandlerDone(Top)
                ac     == attach_catch(states, loc.nexts, loc.chain, loc.handlers, 1)
                hidden == ArmOnly(parent.scope, loc.scopes)
                done   == [body |-> Range(loc.body), normal |-> flatten(<<loc.n>>),
                           handlers |-> [h \in 1..Len(loc.handlers) |->
                                            [body |-> loc.handlers[h].body,
                                             exits |-> flatten(<<loc.exits[h]>>)]],
                           follow |-> 0, done |-> TRUE]
            IN  Emit(SubSeq(stack, 1, Len(stack) - 2),
                     [parent EXCEPT !.scope = Hide(ScopeAfter(parent.scope, Top.scope), hidden)],
                     fts, ac.states, [tries EXCEPT ![loc.try] = done],
                     loc.chain, List(ac.nexts), loc.pend \cup {loc.try})

(***************************************************************************)
(* for loops.                                                              *)
(***************************************************************************)
\* the loops `for c in a`, `for c in concurrent(a)` and `for c in concurrent(a, 3)`
ForStmts == {[iter |-> "a", target |-> "c", concurrent |-> FALSE, args |-> <<>>],
             [iter |-> "a", target |-> "c", concurrent |-> TRUE, args |-> <<>>],
             [iter |-> "a", target |-> "c", concurrent |-> TRUE, args |-> <<3>>]}

\* _get_iterator: the max_concurrency of the Map
max_concurrency(stmt) ==
    IF stmt.concurrent
    THEN (IF Len(stmt.args) > 0 THEN stmt.args[1] ELSE 0)
    ELSE 1

RECURSIVE Dedup(_)
Dedup(s) ==
    IF s = <<>> THEN <<>>
    ELSE LET d == Dedup(Front(s))
         IN  IF Last(s) \in Range(d) THEN d ELSE Append(d, Last(s))

\* handle_for up to handle_body, with _get_iterator and MapScope.build_entry_step
BeginFor ==
    /\ CanOpen
    /\ Admit(FALSE)
    /\ \E stmt \in ForStmts :
         LET mn        == state_name(fts, <<"For ", stmt.iter>>)
             map_state == NewState([kind |-> "Map", label |-> "For", id |-> mn.id,
                                    max_concurrency |-> max_concurrency(stmt),
                                    items_path |-> Register \o <<stmt.iter>>,
                                    result_path |-> Register \o <<"loopResult">>,
                                    has_params |-> TRUE,
                                    parameters |-> <<[k |-> [name |-> "register", sfx |-> TRUE],
                                                     v |-> Str(<<"$.register">>)],
                                                    [k |-> [name |-> stmt.target, sfx |-> TRUE],
                                                     v |-> Str(<<"$$.Map.Item.Value">>)]>>,
                                    g |-> [Ghost(stack, Top.scope, {}, {stmt.iter}, FALSE)
                                              EXCEPT !.stmt = [t |-> "Iter",
                                                               concurrent |-> stmt.concurrent,
                                                               args |-> stmt.args]]])
             map_scope == MapScope(Top.scope)
             en        == state_name(mn.fts, <<"Register loop value">>)
             ra        == build_register_assignment(
                              map_scope,
                              <<[k |-> stmt.target, v |-> StringAt(<<"$", stmt.target>>)]>>,
                              <<"register">>)
             entry     == NewState([kind |-> "Pass", label |-> "Register loop value",
                                    id |-> en.id, result_path |-> Register,
                                    has_params |-> TRUE, parameters |-> ra.params,
                                    g |-> Ghost(Append(stack, Frame("for", map_scope, NoneV)),
                                                map_scope, {stmt.target}, {}, TRUE)])
         IN  /\ fts' = en.fts
             /\ states' = states \o <<map_state, entry>>
             /\ stack' = Append(stack, Frame("for", ra.scope,
                                             [map_state |-> mn.fts.state_number,
                                              entry_step |-> en.fts.state_number]))
    /\ UNCHANGED <<SFN_INDEX, status, tries, names, pl, exec>>

\* handle_for after handle_body
EndFor ==
    /\ status = "body"
    /\ Top.kind = "for"
    /\ Top.n > 0
    /\ Same
    /\ IF Top.chain = <<>> THEN Raise
       ELSE
       LET parent  == stack[Len(stack) - 1]
           below   == SubSeq(stack, 1, Len(stack) - 2)
           m       == Top.loc.map_state
           sts1    == [states EXCEPT ![Top.loc.entry_step].next = Top.chain[1],
                                     ![m].iterator = Top.loc.entry_step]
           rn      == state_name(fts, <<"Map return">>)
           r       == rn.fts.state_number
           updated == Dedup(updated_vars(Top.scope))
           hidden  == ArmOnly(parent.scope, <<Top.scope>>)
           scope   == Hide(ScopeAfter(parent.scope, Top.scope), hidden)
       IN  IF updated # <<>>
           THEN LET map_return_step ==
                        NewState([kind |-> "Pass", label |-> "Map return", id |-> rn.id,
                                  has_params |-> TRUE,
                                  parameters |-> [i \in 1..Len(updated) |->
                                      [k |-> [name |-> updated[i], sfx |-> FALSE],
                                       v |-> StringAt(Register \o <<updated[i]>>)]],
                                  g |-> [Ghost(stack, Top.scope, {}, Range(updated), FALSE)
                                            EXCEPT !.stmt = [t |-> "For", map |-> m]]])
                    cn  == state_name(rn.fts, <<"Consolidate map results">>)
                    c   == cn.fts.state_number
                    ra  == build_register_assignment(
                               scope,
                               [i \in 1..Len(updated) |->
                                   [k |-> updated[i],
                                    v |-> StringAt(Register \o <<"loopResult[*]", updated[i], "[*]">>)]],
                               <<"register">>)
                    consolidate_step ==
                        NewState([kind |-> "Pass", label |-> "Consolidate map results",
                                  id |-> cn.id, result_path |-> Register,
                                  has_params |-> TRUE, parameters |-> ra.params,
                                  g |-> [Ghost(below, scope, Range(updated), {}, TRUE)
                                            EXCEPT !.stmt = [t |-> "For", map |-> m]]])
                    adv == advance([sts1 EXCEPT ![m].next = c]
                                       \o <<map_return_step, consolidate_step>>,
                                   Top.next_, <<r>>, Cb("next", r))
                IN  IF adv.err THEN Raise
                    ELSE Emit(below, [parent EXCEPT !.scope = ra.scope], cn.fts, adv.states,
                              tries, <<m>>, Cb("next", c), {})
           ELSE LET map_return_step ==
                        NewState([kind |-> "Pass", label |-> "Map return", id |-> rn.id,
                                  has_params |-> TRUE,
                                  g |-> [Ghost(stack, Top.scope, {}, {}, FALSE)
                                            EXCEPT !.stmt = [t |-> "For", map |-> m]]])
                    adv == advance(Append(sts1, map_return_step), Top.next_, <<r>>,
                                   Cb("next", r))
                IN  IF adv.err THEN Raise
                    ELSE Emit(below, [parent EXCEPT !.scope = scope], rn.fts, adv.states,
                              tries, <<m>>, Cb("next", m), {})

(***************************************************************************)
(* List comprehensions.                                                    *)
(***************************************************************************)
\* `target = [... for x in iter]`, the iterator a name or concurrent(name, ...)
ListComp(target, iter, concurrent, args) ==
    [t |-> "ListComp", target |-> target, iter |-> iter, elt |-> "x",
     concurrent |-> concurrent, args |-> args]

handle_list_comp(stmt) ==
    IF stmt.concurrent /\ Len(stmt.args) < 1
    THEN Raise
    ELSE
    LET max_conc == IF stmt.concurrent THEN stmt.args[1] ELSE 0
        iter_var == stmt.iter
        hn   == state_name(fts, <<"Has ", iter_var, " to map">>)
        h    == hn.fts.state_number
        mn   == state_name(hn.fts, <<"For ", iter_var>>)
        m    == mn.fts.state_number
        fn   == state_name(mn.fts, <<"Call function...">>)
        f    == fn.fts.state_number
        cn   == state_name(fn.fts, <<"Consolidate map results">>)
        c    == cn.fts.state_number
        ra   == build_register_assignment(
                    Top.scope,
                    <<[k |-> stmt.target, v |-> StringAt(<<"$", "loopResult[*][*]">>)]>>,
                    <<"loopResult[0]", "register">>)
        it   == [t |-> "Iter", concurrent |-> stmt.concurrent, args |-> stmt.args]
        choice == NewState([kind |-> "Choice", label |-> "Has to map", id |-> hn.id,
                            when |-> m,
                            g |-> Ghost(stack, Top.scope, {}, {iter_var}, FALSE)])
        map_state == NewState([kind |-> "Map", label |-> "For", id |-> mn.id,
                               max_concurrency |-> max_conc,
                               result_path |-> <<"$", "loopResult">>,
                               has_params |-> TRUE,
                               parameters |-> <<[k |-> [name |-> "register", sfx |-> TRUE],
                                                v |-> Str(<<"$.register">>)],
                                               [k |-> [name |-> stmt.elt, sfx |-> TRUE],
                                                v |-> Str(<<"$$.Map.Item.Value">>)]>>,
                               iterator |-> f, next |-> c,
                               g |-> [Ghost(stack, Top.scope, {}, {iter_var}, FALSE)
                                         EXCEPT !.stmt = it]])
        call_func == NewState([kind |-> "Pass", label |-> "Call function", id |-> fn.id,
                               has_params |-> TRUE,
                               parameters |-> <<[k |-> [name |-> "loopResult", sfx |-> FALSE],
                                                v |-> StringAt(<<"$", stmt.elt>>)]>>,
                               g |-> Ghost(stack, Top.scope, {}, {}, FALSE)])
        consolidate_step ==
            NewState([kind |-> "Pass", label |-> "Consolidate map results", id |-> cn.id,
                      result_path |-> Register, has_params |-> TRUE,
                      parameters |-> ra.params,
                      g |-> [Ghost(stack, Top.scope, {stmt.target}, {}, TRUE)
                                EXCEPT !.stmt = [t |-> "ListComp", map |-> m]]])
    IN  Emit(Front(stack), [Top EXCEPT !.scope = ra.scope], cn.fts,
             states \o <<choice, map_state, call_func, consolidate_step>>, tries,
             <<h, m>>, List(<<Cb("otherwise", h), Cb("next", c)>>), {})

\* the comprehensions over `a`, `concurrent(a)` and `concurrent(a, N)`
ListCompStmts ==
    {ListComp(target, "a", FALSE, <<>>) : target \in {"c", "d"}}
        \cup {ListComp(target, "a", TRUE, args) :
                 target \in {"c", "d"}, args \in {<<>>, <<2>>, <<3>>}}

\* handle_op for an assignment whose value is an ast.ListComp
StmtListComp ==
    /\ Admit(FALSE)
    /\ \E stmt \in ListCompStmts : handle_list_comp(stmt)

(***************************************************************************)
(* PythonLambda: the registry of callables, the dispatcher file that        *)
(* create_construct writes, and the launch function of that file.           *)
(***************************************************************************)
\* the callables of the application: __name__, whether the attribute of that
\* name in the module of the callable is the callable itself (a function
\* defined at module level) or is missing (a closure, an undecorated wrapper),
\* the parameters, and the kind of value the callable returns
Callables ==
    [f     |-> [name |-> "f", attr |-> TRUE, args |-> <<"p">>, result |-> "Mapping"],
     g     |-> [name |-> "g", attr |-> TRUE, args |-> <<"p", "q">>, result |-> "tuple"],
     h     |-> [name |-> "h", attr |-> TRUE, args |-> <<>>, result |-> "int"],
     inner |-> [name |-> "inner", attr |-> FALSE, args |-> <<"p">>, result |-> "int"]]

\* PythonLambda.__init__; attrs holds what register attaches to the callables,
\* file the launchers table of the dispatcher file, call the last launch with
\* the table it ran with
PythonLambda ==
    [functions |-> [n \in {} |-> NoneV], lmbda |-> NoneV, file |-> NoneV,
     attrs |-> [c \in DOMAIN Callables |-> NoneV], raised |-> FALSE,
     registers |-> 0, call |-> NoneV]

\* a register that overwrites the entry of a name already registered
register_overwrite(p, func, name) ==
    LET definition == [func |-> func, args |-> Callables[func].args,
                       name |-> IF name = <<>> THEN Callables[func].name ELSE name[1]]
    IN  [p EXCEPT !.functions = (definition.name :> definition) @@ @,
                  !.attrs[func] = [launcher_target |-> definition.name,
                                   definition |-> definition],
                  !.raised = FALSE, !.registers = @ + 1]

\* PythonLambda.register; the name is <<>> for None
register(p, func, name) ==
    LET definition == [func |-> func, args |-> Callables[func].args,
                       name |-> IF name = <<>> THEN Callables[func].name ELSE name[1]]
    IN  IF definition.name \in DOMAIN p.functions
        THEN [p EXCEPT !.raised = TRUE, !.registers = @ + 1]
        ELSE [p EXCEPT !.functions = (definition.name :> definition) @@ @,
                       !.attrs[func] = [launcher_target |-> definition.name,
                                        definition |-> definition],
                       !.raised = FALSE, !.registers = @ + 1]

\* PythonLambda.create_construct: the launchers table holds, per name, the text
\* module.function_name and the parameter names; a second Function under the
\* same id is rejected by the CDK after the file is written
create_construct(p) ==
    [p EXCEPT !.file = [launchers |->
                          [n \in DOMAIN p.functions |->
                              [function |-> Callables[p.functions[n].func].name,
                               args |-> p.functions[n].args]]],
              !.lmbda = [t |-> "Function"],
              !.raised = (p.lmbda # NoneV)]

\* what a callable returns
Result(func, kwargs) ==
    IF DOMAIN kwargs # Range(Callables[func].args) THEN [t |-> "TypeError"]
    ELSE IF Callables[func].result = "Mapping"
    THEN [t |-> "Mapping", items |-> <<[k |-> <<"r">>, v |-> IntV(1)]>>]
    ELSE IF Callables[func].result = "tuple"
    THEN [t |-> "tuple", elts |-> <<IntV(1), IntV(2)>>]
    ELSE IntV(7)

\* the launch function of the dispatcher file
launch(file, event) ==
    LET launchers == file.launchers
        \* the callable the text module.function_name evaluates to
        attr(function) == {c \in DOMAIN Callables :
                              Callables[c].name = function /\ Callables[c].attr}
        fail == [raised |-> TRUE, event |-> event, launchers |-> launchers, callee |-> "",
                 kwargs |-> <<>>, result |-> NoneV]
    IN  IF \E n \in DOMAIN launchers : attr(launchers[n].function) = {} THEN fail
        ELSE IF event["launcher_target"] \notin DOMAIN launchers THEN fail
        ELSE LET definition == launchers[event["launcher_target"]]
                 callee == CHOOSE c \in attr(definition.function) : TRUE
                 kwargs == [a \in Range(definition.args) \cap DOMAIN event |-> event[a]]
                 result == Result(callee, kwargs)
             IN  IF result.t = "TypeError" THEN [fail EXCEPT !.callee = callee]
                 ELSE [raised |-> FALSE, event |-> event, launchers |-> launchers,
                       callee |-> callee, kwargs |-> kwargs,
                       result |->
                         IF result.t = "Mapping" THEN result
                         ELSE IF result.t = "tuple"
                         THEN [t |-> "Mapping",
                               items |-> [i \in 1..Len(result.elts) |->
                                            [k |-> <<"arg">> \o Dec(i - 1),
                                             v |-> result.elts[i]]]]
                         ELSE [t |-> "Mapping",
                               items |-> <<[k |-> <<"arg", "0">>, v |-> result]>>]]

(***************************************************************************)
(* The specification of one compilation.                                   *)
(***************************************************************************)
Init ==
    /\ SFN_INDEX = NextSfnIndex(0)
    /\ \E func \in Functions :
         fts = FunctionToSteps(func, 0)
    /\ states = <<>>
    /\ stack = <<>>
    /\ status = "new"
    /\ tries = <<>>
    /\ nstmts = 0
    /\ core = TRUE
    /\ names = <<>>
    /\ pl = PythonLambda
    /\ exec = NoneV

Next ==
    \/ BuildEntry
    \/ StmtAssign
    \/ StmtPass
    \/ StmtCall
    \/ StmtReturn
    \/ BeginIf
    \/ BeginElse
    \/ EndIf
    \/ BeginWith
    \/ EndWith
    \/ BeginTry
    \/ BeginHandler
    \/ NextHandler
    \/ EndTry
    \/ BeginFor
    \/ EndFor
    \/ BuildFinish

Spec == Init /\ [][Next]_vars

(***************************************************************************)
(* The specification of the identifier service alone: any number of        *)
(* machines built in one process, any labels handed to state_name.         *)
(***************************************************************************)
Alphabet == {"a", "[", "]"}

RECURSIVE Labels(_)
Labels(n) ==
    IF n = 0 THEN {<<>>}
    ELSE Labels(n - 1) \cup {Append(l, ch) : l \in Labels(n - 1), ch \in Alphabet}

AnyFunction == CHOOSE func \in Functions : TRUE

IdsInit ==
    /\ SFN_INDEX = NextSfnIndex(0)
    /\ fts = FunctionToSteps(AnyFunction, 0)
    /\ names = <<>>
    /\ pl = PythonLambda
    /\ exec = NoneV
    /\ states = <<>>
    /\ stack = <<>>
    /\ status = "ids"
    /\ tries = <<>>
    /\ nstmts = 0
    /\ core = TRUE

\* FunctionToSteps.__init__ for one more machine of the process
IdsNewMachine ==
    /\ status = "ids"
    /\ SFN_INDEX < MaxMachines
    /\ fts' = FunctionToSteps(AnyFunction, SFN_INDEX)
    /\ SFN_INDEX' = NextSfnIndex(SFN_INDEX)
    /\ UNCHANGED <<names, states, stack, status, tries, nstmts, core, pl, exec>>

\* one call of state_name; obj counts the machines built before this one
IdsStateName ==
    /\ status = "ids"
    /\ Len(names) < MaxNames
    /\ \E label \in Labels(MaxLabelLen) :
         LET sn == state_name(fts, label)
         IN  /\ fts' = sn.fts
             /\ names' = Append(names, [id |-> sn.id, label |-> label,
                                        m |-> fts.sfn_number, s |-> sn.fts.state_number])
    /\ UNCHANGED <<SFN_INDEX, states, stack, status, tries, nstmts, core, pl, exec>>

IdsNext == IdsNewMachine \/ IdsStateName

SpecIds == IdsInit /\ [][IdsNext]_vars

(***************************************************************************)
(* The specification of the assignment statements alone: every form of     *)
(* target and the values None, a name and a string constant, at the top of *)
(* a function body.                                                        *)
(***************************************************************************)
SubTargets == {NoneV, Str(<<"k">>), Str(<<>>), IntV(0), IntV(1)}

AnyAssignStmts ==
    {Assign(ann, "c", sub, value) :
        ann \in BOOLEAN, sub \in SubTargets, value \in {Constant(NoneV), Name("a")}}
      \cup {Assign(FALSE, "c", NoneV, Constant(Str(text))) :
               text \in {<<"v">>, <<"States", " of matter">>}}

\* handle_op for an ast.Assign or ast.AnnAssign whose value is no call
AssignAny ==
    /\ status = "body"
    /\ nstmts < MaxAssigns
    /\ nstmts' = nstmts + 1
    /\ UNCHANGED core
    /\ \E stmt \in AnyAssignStmts : handle_assign_value(stmt)

AssignNext == BuildEntry \/ AssignAny

SpecAssign == Init /\ [][AssignNext]_vars

(***************************************************************************)
(* The specification of the iterations alone: for loops whose bodies are   *)
(* list comprehensions.                                                    *)
(***************************************************************************)
IterNext == BuildEntry \/ StmtListComp \/ BeginFor \/ EndFor

SpecIter == Init /\ [][IterNext]_vars

(***************************************************************************)
(* The specification of the call statements alone: calls of a compute      *)
(* unit, bare or wrapped in event or await_token, and of service           *)
(* operations, with and without assignment targets.                        *)
(***************************************************************************)
\* the call statements: step(a) bare, in event and in await_token with a
\* `returns` list and an optional duration, and two service operations
AnyCallStmts ==
    LET StepCall     == CallE("step", <<Name("a")>>)
        ReturnLists  == {ListE(<<Constant(Str(<<"result">>))>>),
                         ListE(<<Constant(Str(<<"result">>)), Constant(Str(<<"detail">>))>>)}
        DurationArgs == {<<>>, <<AttrCall("seconds", <<Constant(IntV(30))>>)>>,
                         <<AttrCall("minutes", <<Constant(IntV(2))>>)>>}
    IN  {CallStmt(call, targets) :
            call \in {StepCall, CallE("event", <<StepCall>>),
                      CallE("s3_write_json", <<Name("a")>>),
                      CallE("sqs_delete_message", <<Name("a")>>)},
            targets \in {<<>>, <<"c">>}}
          \cup {CallStmt(CallE("await_token", <<StepCall, returns>> \o duration), targets) :
                   returns \in ReturnLists, duration \in DurationArgs,
                   targets \in {<<>>, <<"c">>, <<"c", "d">>}}

\* handle_op for a call statement, bare or assigned
CallAny ==
    /\ status = "body"
    /\ nstmts < MaxCalls
    /\ nstmts' = nstmts + 1
    /\ UNCHANGED core
    /\ \E stmt \in AnyCallStmts : handle_call_function(stmt)

CallNext == BuildEntry \/ CallAny

SpecCall == Init /\ [][CallNext]_vars

(***************************************************************************)
(* The specification of the conditions alone: if statements over tests of  *)
(* every shape, with bodies of pass statements.                            *)
(***************************************************************************)
Tests ==
    {Name(id) : id \in DOMAIN declared_type}
      \cup {Subscript(Name("a"), Constant(Str(<<"k">>))), Constant(BoolV(TRUE)),
            Compare(Name("a"), <<"Lt", "Lt">>, <<Constant(IntV(1)), Constant(IntV(3))>>),
            Compare(Constant(IntV(1)), <<"Lt">>, <<Constant(IntV(3))>>),
            [t |-> "Call", name |-> FALSE, func |-> "startswith", value |-> Name("a"),
             args |-> <<Constant(Str(<<"v">>))>>]}
      \cup {Compare(Name("a"), <<op>>, <<Constant(value)>>) :
               op \in {"Eq", "Lt", "Gt", "NotEq"},
               value \in {Str(<<"v">>), IntV(1), FloatV(15), BoolV(TRUE)}}

\* handle_op for an if statement with any test
IfAny ==
    /\ CanOpen
    /\ status = "body"
    /\ nstmts < MaxTests
    /\ nstmts' = nstmts + 1
    /\ UNCHANGED core
    /\ \E test \in Tests : handle_if(test)

CondNext == BuildEntry \/ IfAny \/ StmtPass \/ BeginElse \/ EndIf

SpecCond == Init /\ [][CondNext]_vars

(***************************************************************************)
(* The specification of the return statements alone: a return of every     *)
(* form after up to MaxPasses pass statements.                             *)
(***************************************************************************)
ReturnAny ==
    LET len(arg) == CallE("len", <<arg>>)
        values == {NoValue, Name("a"), Constant(IntV(1)), Constant(NoneV),
                   len(Name("a")), CallE("range", <<Name("a")>>),
                   len(Subscript(Name("a"), Constant(Str(<<"k">>)))),
                   CallE("len", <<>>), CallE("step", <<Name("a")>>),
                   Tuple(<<Name("a")>>), Tuple(<<len(Name("a"))>>),
                   Tuple(<<Name("a"), Constant(NoneV)>>),
                   Tuple(<<Name("a"), len(Name("a"))>>),
                   Tuple(<<Name("a"), CallE("range", <<Constant(IntV(1)), Name("a")>>)>>),
                   Tuple(<<Name("a"), Name("a"), Name("a")>>)}
    IN  /\ status = "body"
        /\ ~Top.ret
        /\ nstmts <= MaxPasses
        /\ nstmts' = nstmts + 1
        /\ UNCHANGED core
        /\ \E value \in values : handle_return(value)

\* pass statements may come before the return
ReturnNext == BuildEntry \/ (nstmts < MaxPasses /\ StmtPass) \/ ReturnAny

SpecReturn == Init /\ [][ReturnNext]_vars

(***************************************************************************)
(* The specification of one PythonLambda: register and create_construct in *)
(* any order, and invocations of the dispatcher once the file is written.  *)
(***************************************************************************)
LambdaNext ==
    \/ /\ pl.registers < MaxRegisters
       /\ \E func \in DOMAIN Callables, name \in {<<>>, <<"f">>, <<"x">>} :
             pl' = register(pl, func, name)
       /\ UNCHANGED <<SFN_INDEX, fts, states, stack, status, tries, nstmts, core, names, exec>>
    \/ /\ pl' = create_construct(pl)
       /\ UNCHANGED <<SFN_INDEX, fts, states, stack, status, tries, nstmts, core, names, exec>>
    \/ /\ pl.file # NoneV
       /\ \E target \in {"f", "g", "h", "inner", "x"}, fields \in {{}, {"p"}, {"p", "q"}, {"p", "q", "z"}} :
             pl' = [pl EXCEPT !.call =
                       launch(pl.file, [a \in fields \cup {"launcher_target"} |->
                                          IF a = "launcher_target" THEN target ELSE a])]
       /\ UNCHANGED <<SFN_INDEX, fts, states, stack, status, tries, nstmts, core, names, exec>>

SpecLambda == Init /\ [][LambdaNext]_vars

(***************************************************************************)
(* A machine at run time.  A JSON object is a function on its keys, a list *)
(* is a record with the items, a number and a string are the records of    *)
(* IntV and Str.  exec holds the input the caller gave, the document of    *)
(* the execution, the state it is at (0 after the last one) and, while a   *)
(* Map runs, the document and the position of each of its iterations.      *)
(***************************************************************************)
\* handle_array_append: `r.append(c)` and `r.append(5)`
StmtAppend ==
    /\ Admit(FALSE)
    /\ \E array_name \in {"r"}, arg \in {Name("c"), Constant(IntV(5))} :
         LET value       == IF arg.t = "Name" THEN <<arg.id>> ELSE Dec(arg.value.v)
             path_to_add == IF arg.t = "Name" THEN Register \o <<arg.id>> ELSE Dec(arg.value.v)
             ln  == state_name(fts, <<"Append ">> \o value \o <<" to ", array_name>>)
             fn  == state_name(ln.fts, <<"Flatten ", array_name>>)
             l   == ln.fts.state_number
             f   == fn.fts.state_number
             ra  == build_register_assignment(
                        Top.scope,
                        <<[k |-> array_name, v |-> StringAt(<<"$", "meta", "arrayConcat[*][*]">>)]>>,
                        <<"register">>)
             list_step ==
                 NewState([kind |-> "Pass", label |-> "Append", id |-> ln.id, next |-> f,
                           result_path |-> <<"$", "meta">>, has_params |-> TRUE,
                           parameters |->
                               <<[k |-> [name |-> "arrayConcat", sfx |-> FALSE],
                                  v |-> StringAt(<<"States.Array(">> \o Register \o <<array_name>>
                                                 \o <<", States.Array(">> \o path_to_add
                                                 \o <<"))">>)]>>,
                           g |-> Ghost(stack, Top.scope, {},
                                       {array_name} \cup (IF arg.t = "Name" THEN {arg.id} ELSE {}),
                                       FALSE)])
             flatten_step ==
                 NewState([kind |-> "Pass", label |-> "Flatten", id |-> fn.id,
                           result_path |-> Register, has_params |-> TRUE,
                           parameters |-> ra.params,
                           g |-> Ghost(stack, Top.scope, {array_name}, {}, TRUE)])
         IN  Emit(Front(stack), [Top EXCEPT !.scope = ra.scope], fn.fts,
                  states \o <<list_step, flatten_step>>, tries, <<l, f>>, Cb("next", f), {})

\* the caller starts the compiled machine: the required parameters, and any of
\* the optional ones, are the fields of the input
ExecStart ==
    /\ status = "done"
    /\ exec = NoneV
    /\ \E supplied \in SUBSET Range(DictKeys(fts.func.optional)),
          a \in {<<>>, <<IntV(1)>>, <<IntV(1), IntV(2)>>},
          r \in {<<>>, <<IntV(7)>>} :
         LET input == [p \in Range(fts.func.required) \cup supplied |->
                          CASE p = "a" -> [t |-> "list", items |-> a]
                            [] p = "r" -> [t |-> "list", items |-> r]
                            [] OTHER   -> Str(<<"caller's ", p>>)]
         IN  /\ "r" \notin DOMAIN input => r = <<>>
             /\ exec' = [t |-> "run", input |-> input, doc |-> input,
                         pos |-> Top.loc.start, status |-> "running",
                         inMap |-> FALSE, iters |-> <<>>]
    /\ UNCHANGED <<SFN_INDEX, fts, states, stack, status, tries, nstmts, core, names, pl>>

\* one state of the machine runs: a Pass or a Choice at the top level or in an
\* iteration that max_concurrency admits, or a Map starts or completes
ExecStep ==
    /\ exec # NoneV
    /\ exec.status = "running"
    /\ LET Missing  == [t |-> "missing"]
           IsObj(v) == "t" \notin DOMAIN v
           IsList(v) == ~IsObj(v) /\ v.t = "list"
           RECURSIVE Concat(_)
           Concat(ss) == IF ss = <<>> THEN <<>> ELSE ss[1] \o Concat(Tail(ss))
           \* the steps of a JSONPath: a field name or the wildcard
           Steps(word) ==
               CASE word = "[*]"                -> <<"*">>
                 [] word = "loopResult[*]"      -> <<"loopResult", "*">>
                 [] word = "arrayConcat[*][*]"  -> <<"arrayConcat", "*", "*">>
                 [] OTHER                       -> <<word>>
           RECURSIVE Select(_, _)
           \* the nodes the steps w select from the nodes vals
           Select(vals, w) ==
               IF w = <<>> THEN vals
               ELSE IF w[1] = "*"
                    THEN Select(Concat([i \in 1..Len(vals) |->
                                          IF IsList(vals[i]) THEN vals[i].items ELSE <<>>]),
                                Tail(w))
                    ELSE Select(Concat([i \in 1..Len(vals) |->
                                          IF IsObj(vals[i]) /\ w[1] \in DOMAIN vals[i]
                                          THEN <<vals[i][w[1]]>> ELSE <<>>]),
                                Tail(w))
           \* the value of a path "$...." on the document d
           Path(d, path) ==
               LET steps == Concat([i \in 1..Len(path) - 1 |-> Steps(path[i + 1])])
                   nodes == Select(<<d>>, steps)
               IN  IF "*" \in Range(steps) THEN [t |-> "list", items |-> nodes]
                   ELSE IF nodes = <<>> THEN Missing ELSE nodes[1]
           \* States.Array(<path>, States.Array(<path or number>))
           Intrinsic(d, path) ==
               LET outer == Path(d, SubSeq(path, 2, 4))
                   arg   == SubSeq(path, 6, Len(path) - 1)
                   inner == IF arg[1] = "$" THEN Path(d, arg)
                            ELSE IntV(CHOOSE n \in 0..9 : Dec(n) = arg)
               IN  IF outer = Missing \/ inner = Missing THEN Missing
                   ELSE [t |-> "list",
                         items |-> <<outer, [t |-> "list", items |-> <<inner>>]>>]
           Value(d, v) ==
               IF v.t = "token"
               THEN (IF v.path[1] = "$" THEN Path(d, v.path) ELSE Intrinsic(d, v.path))
               ELSE v
           \* the document with val at the path w
           RECURSIVE Put(_, _, _)
           Put(d, w, val) ==
               IF w = <<>> THEN val
               ELSE [x \in DOMAIN d \cup {w[1]} |->
                        IF x = w[1]
                        THEN Put(IF w[1] \in DOMAIN d THEN d[w[1]] ELSE <<>>, Tail(w), val)
                        ELSE d[x]]
           \* a Pass: input_path, parameters, result_path
           Pass(d, s) ==
               LET inp == IF s.input_path = NoPath THEN d ELSE Path(d, s.input_path)
                   ps  == s.parameters
                   bad == \/ inp = Missing
                          \/ s.has_params /\ \E i \in 1..Len(ps) : Value(inp, ps[i].v) = Missing
                   res == IF s.has_params
                          THEN [x \in {ps[i].k.name : i \in 1..Len(ps)} |->
                                   Value(inp, ps[CHOOSE i \in 1..Len(ps) : ps[i].k.name = x].v)]
                          ELSE inp
               IN  IF bad THEN [ok |-> FALSE, doc |-> d, pos |-> 0]
                   ELSE [ok |-> TRUE, pos |-> s.next,
                         doc |-> IF s.result_path = NoPath THEN res
                                 ELSE Put(d, Tail(s.result_path), res)]
           \* a Choice on is_not_present
           Choice(d, s) ==
               [ok |-> TRUE, doc |-> d,
                pos |-> IF Path(d, s.condition.variable) = Missing THEN s.when
                        ELSE s.otherwise]
           Step(d, i) == IF states[i].kind = "Choice" THEN Choice(d, states[i])
                         ELSE Pass(d, states[i])
           s == states[exec.pos]
       IN  IF exec.pos = 0
           THEN exec' = [exec EXCEPT !.status = "done"]
           ELSE IF s.kind = "Map" /\ ~exec.inMap
           THEN LET items == Path(exec.doc, s.items_path)
                IN  IF ~IsList(items) THEN exec' = [exec EXCEPT !.status = "failed"]
                    ELSE exec' = [exec EXCEPT
                             !.inMap = TRUE,
                             !.iters = [k \in 1..Len(items.items) |->
                                          [doc |-> [x \in {s.parameters[i].k.name : i \in 1..2} |->
                                                      IF x = "register"
                                                      THEN Path(exec.doc, Register)
                                                      ELSE items.items[k]],
                                           pos |-> s.iterator]]]
           ELSE IF s.kind = "Map"
           THEN LET running == {k \in 1..Len(exec.iters) : exec.iters[k].pos # 0}
                    admitted == {k \in running :
                                   \/ s.max_concurrency = 0
                                   \/ Cardinality({j \in running : j < k}) < s.max_concurrency}
                IN  IF running = {}
                    THEN exec' = [exec EXCEPT
                             !.inMap = FALSE, !.iters = <<>>, !.pos = s.next,
                             !.doc = Put(exec.doc, Tail(s.result_path),
                                         [t |-> "list",
                                          items |-> [k \in 1..Len(exec.iters) |->
                                                       exec.iters[k].doc]])]
                    ELSE \E k \in admitted :
                           LET r == Step(exec.iters[k].doc, exec.iters[k].pos)
                           IN  exec' = IF r.ok
                                       THEN [exec EXCEPT !.iters[k] = [doc |-> r.doc, pos |-> r.pos]]
                                       ELSE [exec EXCEPT !.status = "failed"]
           ELSE LET r == Step(exec.doc, exec.pos)
                IN  exec' = IF r.ok THEN [exec EXCEPT !.doc = r.doc, !.pos = r.pos]
                            ELSE [exec EXCEPT !.status = "failed"]
    /\ UNCHANGED <<SFN_INDEX, fts, states, stack, status, tries, nstmts, core, names, pl>>

\* the functions that are compiled and then run: two and three optional
\* parameters, and a list parameter r next to the items a
RunInit ==
    /\ SFN_INDEX = NextSfnIndex(0)
    /\ \E func \in {[required |-> <<"a">>,
                     optional |-> <<[k |-> "b", v |-> Str(<<"default">>)],
                                    [k |-> "c", v |-> IntV(5)]>>,
                     output |-> <<"o0">>, skip_pass |-> TRUE],
                    [required |-> <<"a">>,
                     optional |-> <<[k |-> "b", v |-> Str(<<"default">>)],
                                    [k |-> "c", v |-> IntV(5)],
                                    [k |-> "d", v |-> IntV(0)]>>,
                     output |-> <<"o0">>, skip_pass |-> TRUE],
                    [required |-> <<"a", "r">>, optional |-> <<>>,
                     output |-> <<"o0">>, skip_pass |-> TRUE]} :
         fts = FunctionToSteps(func, 0)
    /\ states = <<>>
    /\ stack = <<>>
    /\ status = "new"
    /\ tries = <<>>
    /\ nstmts = 0
    /\ core = TRUE
    /\ names = <<>>
    /\ pl = PythonLambda
    /\ exec = NoneV

RunNext ==
    \/ BuildEntry
    \/ StmtPass
    \/ (Len(stack) = 1 /\ BeginFor)
    \/ StmtAppend
    \/ EndFor
    \/ BuildFinish
    \/ ExecStart
    \/ ExecStep

SpecRun == RunInit /\ [][RunNext]_vars

(***************************************************************************)
(* Properties.                                                             *)
(***************************************************************************)
StateIds == 1..Len(states)

ParamNames(s) == {s.parameters[i].k.name : i \in 1..Len(s.parameters)}

\* C1: register closure.  Every Pass whose parameters come from
\* build_register_assignment has, among its keys (without the ".$" suffix), every
\* variable the scope knew before the call and every name being bound.
RegisterClosure ==
    \A i \in StateIds :
        states[i].g.regWrite => (states[i].g.vars \cup states[i].g.bound) \subseteq ParamNames(states[i])

\* a register update inside a loop body that carries two or more known variables
RegisterClosureWitness ==
    \E i \in StateIds :
        /\ states[i].g.regWrite
        /\ states[i].g.loop > 0
        /\ states[i].label = "Assign"
        /\ Cardinality(states[i].g.vars \ states[i].g.bound) >= 2

\* what the CDK renders of the parameters of a Pass: entries with a None value
\* are dropped
RenderedParameters(parameters) == SelectSeq(parameters, LAMBDA p : p.v.t # "None")

\* C2: return schema conformance.  The Return Pass of every return statement
\* (tuple, single value, no value) emits exactly the fields of the declared
\* output schema, in schema order, also when a returned element is the
\* constant None.
ReturnSchema ==
    \A i \in StateIds :
        states[i].label = "Return"
            => DictKeys(RenderedParameters(states[i].parameters)) = fts.output

\* C3: a Return state is terminal: no Return Pass has an outgoing transition.
ReturnIsTerminal ==
    \A i \in StateIds : states[i].label = "Return" => states[i].next = 0

\* C4: state IDs are unique.  The names of one machine are numbered 1, 2, ...
\* in the order of the calls, machines built one after the other have different
\* indexes, every ID ends in " [<machine-index>:<state-index>]" and no two IDs
\* of the process are equal.
IdSuffix(m, n) == <<" ", "[">> \o Dec(m) \o <<":">> \o Dec(n) \o <<"]">>

UniqueIds ==
    /\ \A i \in 1..Len(names) :
          LET id  == names[i].id
              sfx == IdSuffix(names[i].m, names[i].s)
          IN  /\ Len(id) = Len(names[i].label) + Len(sfx)
              /\ SubSeq(id, 1, Len(names[i].label)) = names[i].label
              /\ SubSeq(id, Len(names[i].label) + 1, Len(id)) = sfx
              /\ names[i].s = Cardinality({j \in 1..i : names[j].m = names[i].m})
    /\ \A i, j \in 1..Len(names) : i < j => names[i].m <= names[j].m
    /\ \A i, j \in 1..Len(names) : i # j => names[i].id # names[j].id
    /\ fts.sfn_number = SFN_INDEX - 1

\* two machines with names, the second with the same labels as the first
UniqueIdsWitness ==
    \E i, j \in 1..Len(names) :
        /\ names[i].m # names[j].m
        /\ names[i].label = names[j].label
        /\ names[i].s = names[j].s
        /\ \E k \in 1..Len(names) : k # i /\ names[k].m = names[i].m

\* the states reachable from the start state over next, choice, catch and
\* iterator edges
Succ(s) == ({s.next, s.when, s.otherwise, s.iterator}
               \cup {s.catches[k].target : k \in 1..Len(s.catches)}) \ {0}

RECURSIVE ReachFrom(_, _)
ReachFrom(seen, frontier) ==
    IF frontier = {} THEN seen
    ELSE LET new == UNION {Succ(states[i]) : i \in frontier} \ seen
         IN  ReachFrom(seen \cup new, new)

Reachable == IF states = <<>> THEN {} ELSE ReachFrom({1}, {1})

\* C5: in every compiled machine every Choice reachable from the start state has
\* a default (otherwise) branch.
ChoicesHaveDefault ==
    status = "done" =>
        \A i \in Reachable : states[i].kind = "Choice" => states[i].otherwise # 0

RetryAndCatch ==
    status = "done" =>
        \A i \in StateIds :
            (states[i].kind = "Task" /\ states[i].g.withs > 0 /\ states[i].g.tryBody # {})
                => /\ states[i].retries # <<>>
                   /\ \A t \in states[i].g.tryBody :
                         \A h \in 1..Len(tries[t].handlers) :
                             \E k \in 1..Len(states[i].catches) :
                                 states[i].catches[k].try = t /\ states[i].catches[k].h = h

\* the setter cb has been called with state c
Applied(cb, c) ==
    CASE cb.op = "next"      -> states[cb.s].next = c
      [] cb.op = "otherwise" -> states[cb.s].otherwise = c
      [] cb.op = "when"      -> states[cb.s].when = c
      [] cb.op = "catch"     -> \E k \in 1..Len(states[cb.s].catches) :
                                    states[cb.s].catches[k].target = c

Setters(s) == {s[k] : k \in {j \in 1..Len(s) : s[j].t = "cb"}}

ErrorInfo == <<"$", "error-info">>

CatchResultPath ==
    \A i \in StateIds :
        \A k \in 1..Len(states[i].catches) :
            LET c == states[i].catches[k]
            IN  /\ c.result_path.t = "path"
                /\ c.result_path.path = ErrorInfo
                     \/ (Len(c.result_path.path) = 3 /\ SubSeq(c.result_path.path, 1, 2) = Register)

\* C10: no state is emitted that reads a variable the scope does not know: such
\* a statement is a compile error.
ReadBeforeWrite ==
    \A i \in StateIds : states[i].g.reads \subseteq states[i].g.vars

\* C11: null preservation.  Every key that an assignment or the default of an
\* optional parameter gives the literal None is in the emitted parameters with
\* the empty string as its value.
NullPreservation ==
    \A i \in StateIds :
        \A key \in states[i].g.nulls :
            \E p \in 1..Len(states[i].parameters) :
                /\ states[i].parameters[p].k.name = key
                /\ states[i].parameters[p].v = Str(<<>>)

\* C20: subscript assignment.  The Pass that assigns `x[k] = expr` merges a
\* scratch slot into x, and the Pass before it computes {k: expr} into that slot,
\* for every constant k.
SubscriptAssignment ==
    \A i \in StateIds :
        (states[i].label = "Assign" /\ states[i].g.stmt.t = "Assign"
                                    /\ states[i].g.stmt.sub # NoneV) =>
            /\ \E p \in 1..Len(states[i].parameters) :
                  /\ states[i].parameters[p].k.name = states[i].g.stmt.var_name
                  /\ states[i].parameters[p].v = JsonMerge(states[i].g.stmt.var_name)
            /\ i > 1
            /\ states[i - 1].label = "Prep assign"
            /\ states[i - 1].next = i
            /\ states[i - 1].result_path = Register \o <<"itm">>
            /\ DictKeys(states[i - 1].parameters) = <<[name |-> states[i].g.stmt.sub, sfx |-> FALSE]>>

\* C12: retry coverage.  In the compiled machine every state with a retry hook
\* carries the policy of each `with Retry(...)` block it was compiled in exactly
\* once, also inside the arms, handlers and loop bodies of the block, and a
\* state outside every block carries none.
RetryCoverage ==
    status = "done" =>
        \A i \in StateIds :
            HasHook(states[i]) =>
                /\ Len(states[i].retries) = states[i].g.withs
                /\ Range(states[i].retries) \subseteq RetryValues

\* the outer variables that the states of the loop of Map state m, emitted up
\* to state r, write on the register
Overwritten(m, r) ==
    UNION {states[i].g.bound : i \in {j \in (m + 1)..(r - 1) : states[j].g.regWrite}}
        \cap states[m].g.vars

\* C13: map consolidation set.  The 'Map return' Pass of every loop projects
\* exactly the outer variables written anywhere in the loop body, the
\* 'Consolidate map results' Pass after the Map binds the same set, and there
\* is no Consolidate Pass when the set is empty.
MapConsolidation ==
    \A r \in StateIds :
        states[r].label = "Map return" =>
            LET m   == states[r].g.stmt.map
                ow  == Overwritten(m, r)
                con == {c \in StateIds : /\ states[c].label = "Consolidate map results"
                                         /\ states[c].g.stmt.map = m}
            IN  /\ ParamNames(states[r]) = ow
                /\ ow = {} => con = {}
                /\ ow # {} => /\ con = {r + 1}
                              /\ states[m].next = r + 1
                              /\ states[r + 1].g.bound = ow

\* C14: map concurrency resolution.  No iteration fails to compile for a
\* missing concurrency argument, and the Map of every for loop and every list
\* comprehension has max-concurrency N for `concurrent(inner, N)`, 0 for
\* `concurrent(inner)` and 1 for an iterator that is not wrapped.
MapConcurrency ==
    /\ status # "error"
    /\ \A i \in StateIds :
          states[i].kind = "Map" =>
              states[i].max_concurrency =
                  IF states[i].g.stmt.concurrent
                  THEN (IF Len(states[i].g.stmt.args) > 0 THEN states[i].g.stmt.args[1] ELSE 0)
                  ELSE 1

\* the states compiled for a call statement whose call is of func
CallStates(func) ==
    {i \in StateIds : states[i].g.stmt.t = "CallStmt" /\ states[i].g.stmt.call.func = func}

\* C15: callback-token lowering.  `await_token(call(...), returns, duration)`
\* compiles to one Task of the inner call with the wait-for-task-token
\* integration and the duration as heartbeat, and the Pass that follows binds
\* the targets to the fields of `returns`, in order, read from the task result.
AwaitTokenLowering ==
    \A i \in CallStates("await_token") :
        LET stmt == states[i].g.stmt
            args == stmt.call.args
        IN  /\ states[i].kind = "Task" =>
                  /\ states[i].label = "Call"
                  /\ states[i].parameters = build_parameters(args[1])
                  /\ states[i].integration_pattern = "WAIT_FOR_TASK_TOKEN"
                  /\ states[i].heartbeat =
                        IF Len(args) = 3
                        THEN [t |-> "duration",
                              seconds |-> IF args[3].func = "minutes"
                                          THEN 60 * args[3].args[1].value.v
                                          ELSE args[3].args[1].value.v]
                        ELSE NoneV
                  /\ IF stmt.targets = <<>>
                     THEN states[i].next # 0 => states[states[i].next].label # "Register"
                     ELSE /\ states[i].next = i + 1
                          /\ states[i + 1].label = "Register"
                          /\ states[i + 1].g.stmt = stmt
            /\ states[i].kind # "Task" =>
                  /\ states[i].label = "Register"
                  /\ states[i - 1].kind = "Task"
                  /\ states[i - 1].g.stmt = stmt
                  /\ \A k \in 1..Len(stmt.targets) :
                        /\ states[i].parameters[k].k.name = stmt.targets[k]
                        /\ states[i].parameters[k].v =
                              StringAt(<<"$", "out", args[2].elts[k].value.text[1]>>)

\* an await_token with two targets, two return fields and a duration in minutes
AwaitTokenLoweringWitness ==
    \E i \in CallStates("await_token") :
        /\ states[i].label = "Register"
        /\ Len(states[i].g.stmt.targets) = 2
        /\ Len(states[i].g.stmt.call.args) = 3
        /\ states[i - 1].heartbeat = [t |-> "duration", seconds |-> 120]

\* C16: event lowering.  `event(call(...))` compiles to one Task of the inner
\* call with invocation type EVENT, and no Pass binds a variable from its
\* result, also when the call is the right-hand side of an assignment.
EventLowering ==
    \A i \in CallStates("event") :
        /\ states[i].kind = "Task"
        /\ states[i].invocation_type = "EVENT"
        /\ states[i].next \notin {j \in StateIds : states[j].label = "Register"}

\* C17: service-operation lowering.  A call of a registered service operation
\* is never rejected, and the Task it compiles to returns the fields the
\* operation was registered with.
ServiceOperationLowering ==
    /\ ~(/\ status = "error"
         /\ Top.kind = "raise"
         /\ Top.loc.t = "CallStmt"
         /\ Top.loc.call.func \in DOMAIN service_operations)
    /\ \A i \in StateIds :
          (states[i].g.stmt.t = "CallStmt"
              /\ states[i].g.stmt.call.func \in DOMAIN service_operations) =>
                (states[i].label = "Register" =>
                    Len(states[i].g.stmt.targets)
                        <= Len(service_operations[states[i].g.stmt.call.func].return_vars))

\* the Choice states of the if statements, and the test of each
Choices == {i \in StateIds : states[i].kind = "Choice" /\ states[i].g.stmt.t = "If"}

\* the comparator the table of typed comparators gives for `name op constant`:
\* str and number for ==, number for < and >, NoneV outside the table
TypedComparator(op, value) ==
    IF op = "Eq" /\ value.t = "str" THEN "string_equals"
    ELSE IF op = "Eq" /\ value.t \in {"int", "float"} THEN "number_equals"
    ELSE IF op = "Lt" /\ value.t \in {"int", "float"} THEN "number_less_than"
    ELSE IF op = "Gt" /\ value.t \in {"int", "float"} THEN "number_greater_than"
    ELSE "none"

\* the test has the shape `name op constant`
IsComparison(test) ==
    /\ test.t = "Compare"
    /\ test.left.t = "Name"
    /\ Len(test.ops) = 1
    /\ Len(test.comparators) = 1
    /\ test.comparators[1].t = "Constant"

\* C18: comparison conditions.  A test `name op constant` compiles to the typed
\* comparator of the table, for integer and float constants alike; a pair
\* outside the table is rejected and a pair inside it never is; every Choice
\* of an if statement carries a condition.
ComparisonConditions ==
    /\ \A i \in Choices :
          LET test == states[i].g.stmt.test
          IN  /\ states[i].condition # NoneV
              /\ IsComparison(test) =>
                    /\ TypedComparator(test.ops[1], test.comparators[1].value) # "none"
                    /\ states[i].condition =
                          Condition(TypedComparator(test.ops[1], test.comparators[1].value),
                                    Register \o <<test.left.id>>, test.comparators[1].value)
    /\ (status = "error" /\ Top.kind = "raise" /\ Top.loc.t = "If"
            /\ IsComparison(Top.loc.test)) =>
          TypedComparator(Top.loc.test.ops[1], Top.loc.test.comparators[1].value) = "none"

\* the narrower truthiness test for a declared type
NarrowCondition(param, type) ==
    LET present == Condition("is_present", param, NoneV)
        notnull == Condition("is_not_null", param, NoneV)
    IN  IF type = "bool" THEN Condition("boolean_equals", param, BoolV(TRUE))
        ELSE IF type = "str"
        THEN Condition("and", NoPath,
               <<present, notnull,
                 Condition("not", NoPath, <<Condition("string_equals", param, Str(<<>>))>>)>>)
        ELSE Condition("and", NoPath,
               <<present, notnull,
                 Condition("not", NoPath, <<Condition("number_equals", param, IntV(0))>>)>>)

\* C19: type-aware truthiness.  The Choice of a bare-name test carries the
\* narrower condition of the declared type of the name when that type is
\* bool, str, int or float, and the general disjunction only otherwise.
TypeAwareTruthiness ==
    \A i \in Choices :
        LET test == states[i].g.stmt.test
        IN  test.t = "Name" =>
              states[i].condition =
                IF declared_type[test.id] \in {"bool", "str", "int", "float"}
                THEN NarrowCondition(Register \o <<test.id>>, declared_type[test.id])
                ELSE if_value(<<test.id>>, NoneV)

\* C21: single-field return forms.  With one declared output field a return
\* of a name, a constant or an intrinsic call compiles to a Return Pass with
\* one field mapping and is never rejected; a Return Pass compiled from a
\* tuple has as many fields as the schema.
ReturnForms ==
    /\ \A i \in StateIds :
          (states[i].label = "Return" /\ states[i].g.stmt.t = "Return") =>
            LET value == states[i].g.stmt.value
            IN  /\ value.t = "Tuple" =>
                      /\ Len(value.elts) = Len(fts.output)
                      /\ Len(states[i].parameters) = Len(fts.output)
                /\ value.t \in {"Name", "Constant", "Call"} =>
                      /\ Len(states[i].parameters) = 1
                      /\ states[i].parameters[1].k = fts.output[1]
    /\ ~(/\ status = "error"
         /\ Top.kind = "raise"
         /\ Top.loc.t = "Return"
         /\ Len(fts.output) = 1
         /\ \/ Top.loc.value.t \in {"Name", "Constant"}
            \/ /\ _is_intrinsic_function(Top.loc.value)
               /\ _intrinsic_function(Top.loc.value, <<"register">>) # NoneV)

\* C29: path base consistency.  In every state of a function of entry steps and
\* a return, each reference to a variable of the register is relative to the
\* input of the state: `$.<name>` under the input path
\* `$.register`, `$.register.<name>` without an input path.
PathBase ==
    \A i \in StateIds :
        \A p \in 1..Len(states[i].parameters) :
            LET v == states[i].parameters[p].v
            IN  v.t = "token" =>
                  \A q \in 1..Len(v.path) :
                      v.path[q] = "$" =>
                        /\ q < Len(v.path)
                        /\ (v.path[q + 1] = "register") = (states[i].input_path = NoPath)

\* C22: dispatcher round-trip.  An invocation of launch whose target was
\* registered before create_construct and whose event carries the parameters
\* of the registered callable calls that callable with those fields and
\* returns its result as a mapping: a mapping unchanged, a tuple as arg0..,
\* any other value as arg0.
DispatcherRoundTrip ==
    (pl.call # NoneV /\ pl.call.event["launcher_target"] \in DOMAIN pl.call.launchers) =>
        LET event == pl.call.event
            func  == pl.functions[event["launcher_target"]].func
            args  == Range(Callables[func].args)
            value == Result(func, [a \in args |-> event[a]])
        IN  args \subseteq DOMAIN event =>
              /\ ~pl.call.raised
              /\ pl.call.callee = func
              /\ pl.call.kwargs = [a \in args |-> event[a]]
              /\ pl.call.result.t = "Mapping"
              /\ value.t = "Mapping" => pl.call.result = value
              /\ value.t = "tuple" =>
                    /\ Len(pl.call.result.items) = Len(value.elts)
                    /\ \A i \in 1..Len(value.elts) :
                          /\ pl.call.result.items[i].k = <<"arg">> \o Dec(i - 1)
                          /\ pl.call.result.items[i].v = value.elts[i]
              /\ value.t = "int" =>
                    pl.call.result.items = <<[k |-> <<"arg", "0">>, v |-> value]>>

\* C23: duplicate registration.  An entry of the registry never changes; a
\* register call that raises changes neither the registry nor what is
\* attached to the callables; every name of the registry is the name of its
\* entry.
DuplicateRegistration ==
    [][/\ \A n \in DOMAIN pl.functions :
             n \in DOMAIN pl'.functions /\ pl'.functions[n] = pl.functions[n]
       /\ (pl'.registers # pl.registers /\ pl'.raised) =>
             (pl'.functions = pl.functions /\ pl'.attrs = pl.attrs)
       /\ \A n \in DOMAIN pl'.functions : pl'.functions[n].name = n]_vars

\* a register call was rejected, the name is held by another callable, and a
\* callable has nothing attached
DuplicateRegistrationWitness ==
    /\ pl.raised
    /\ pl.registers = 2
    /\ pl.lmbda = NoneV
    /\ "f" \in DOMAIN pl.functions
    /\ pl.functions["f"].func = "f"
    /\ pl.attrs["g"] = NoneV

\* C30: registration and finalization.  Every callable that register has
\* attached get_lambda to, and whose get_lambda returns the construct, has its
\* name in the launchers table of the dispatcher file.
RegistrationOrdering ==
    \A c \in DOMAIN Callables :
        (pl.attrs[c] # NoneV /\ pl.lmbda # NoneV) =>
            pl.attrs[c].launcher_target \in DOMAIN pl.file.launchers

\* C24: literal and symbolic bindings.  In a register-update Pass the key of a
\* binding is rendered with the ".$" suffix (set by update_param_name, or by
\* the CDK for a token) exactly when the value is a register path or an
\* intrinsic expression; the string constant of `name = "..."` is bound as
\* that literal under the unsuffixed key, whatever its text.
LiteralBindings ==
    \A i \in StateIds :
        states[i].g.regWrite =>
          \A p \in 1..Len(states[i].parameters) :
              LET stmt     == states[i].g.stmt
                  b        == states[i].parameters[p]
                  suffixed == b.k.sfx \/ b.v.t = "token"
              IN  IF /\ stmt.t = "Assign"
                     /\ stmt.sub = NoneV
                     /\ stmt.value.t = "Constant"
                     /\ b.k.name = stmt.var_name
                  THEN /\ ~suffixed
                       /\ b.v = IF IsNone(stmt.value) THEN Str(<<>>) ELSE stmt.value.value
                  ELSE suffixed <=>
                         \/ b.v.t = "token"
                         \/ stmt.t = "Assign" /\ b.v = JsonMerge(stmt.var_name)

\* C25: the state graph is acyclic.  No state reaches itself over next, choice,
\* catch and iterator edges, and no state compiled from the body of an except
\* handler carries a catch of the try of that handler.
Acyclic ==
    \A i \in StateIds :
        /\ i \notin ReachFrom({}, {i})
        /\ \A k \in 1..Len(states[i].catches) :
              states[i].catches[k].try \notin states[i].g.handlerOf

\* C26: successor-sink protocol.  In every step of the compilation: advance
\* never calls None; a statement that emits no state leaves the pending
\* setters of its block as they were; and when a statement without a body
\* emits states, every pending setter of its block is a callback that has
\* been applied, once, to the first of these states.
SuccessorSink ==
    [][LET pending  == IF Top.next_.t = "list" THEN flatten(Top.next_.items)
                       ELSE <<Top.next_>>
           first    == Len(states) + 1
           inBlock  == /\ status = "body"
                       /\ status' = "body"
                       /\ Truthy(Top.next_)
                       /\ Len(stack') = Len(stack)
                       /\ Top'.kind = Top.kind
                       /\ Top'.n = Top.n + 1
           applied(cb) ==
               CASE cb.op = "next"      -> states'[cb.s].next = first
                 [] cb.op = "otherwise" -> states'[cb.s].otherwise = first
                 [] cb.op = "when"      -> states'[cb.s].when = first
                 [] cb.op = "catch"     ->
                      Cardinality({k \in 1..Len(states'[cb.s].catches) :
                                     /\ states'[cb.s].catches[k].try = cb.try
                                     /\ states'[cb.s].catches[k].h = cb.h
                                     /\ states'[cb.s].catches[k].target = first}) = 1
       IN  /\ ~(status' = "error" /\ Top'.kind = "raise" /\ Top'.loc.t = "TypeError")
           /\ (inBlock /\ Len(states') = Len(states)) => Top'.next_ = Top.next_
           /\ (inBlock /\ Len(states') > Len(states)) =>
                 \A k \in 1..Len(pending) :
                     pending[k].t = "cb" /\ applied(pending[k])]_vars

\* C27: entry steps keep supplied optional parameters.  When a run of a machine
\* with two or more optional parameters leaves the entry steps, the register
\* holds, for every optional parameter, the caller's value if the caller
\* supplied it and the declared default if not.
EntryDefaults ==
    LET optional == fts.func.optional
        last     == 1 + 2 * Len(optional)
    IN  (/\ exec # NoneV
         /\ exec.status = "running"
         /\ ~exec.inMap
         /\ Len(optional) >= 2
         /\ exec.pos = IF Len(states) > last THEN last + 1 ELSE 0)
        => /\ "register" \in DOMAIN exec.doc
           /\ \A i \in 1..Len(optional) :
                 /\ optional[i].k \in DOMAIN exec.doc.register
                 /\ exec.doc.register[optional[i].k] =
                       IF optional[i].k \in DOMAIN exec.input
                       THEN exec.input[optional[i].k]
                       ELSE optional[i].v

\* C28: append inside a loop.  For the machine of `for c in a: r.append(c)`,
\* with any max_concurrency, once the run is past the 'Consolidate map
\* results' Pass the list r on the register is the r of the input followed
\* by the items of a, in their order.
LoopAppend ==
    (/\ exec # NoneV
     /\ exec.status = "running"
     /\ exec.pos = 0
     /\ Len(states) = 7
     /\ states[2].kind = "Map"
     /\ states[4].label = "Append"
     /\ states[4].g.reads = {"r", "c"}
     /\ states[7].label = "Consolidate map results")
    => /\ "register" \in DOMAIN exec.doc
       /\ "r" \in DOMAIN exec.doc.register
       /\ exec.doc.register.r =
             [t |-> "list", items |-> exec.input.r.items \o exec.input.a.items]

====
